---- MODULE Spec2Model ----
(***************************************************************************)
(* notehub: the sandboxed note shell of cli.py (class Shell).              *)
(*                                                                         *)
(* Text is a sequence of one-character strings, so that prefix tests,      *)
(* substring search, replacement and stripping are computed character by   *)
(* character as Python computes them.  The filesystem is the set of        *)
(* existing directories and the map from existing files to their content,  *)
(* both keyed by normalized absolute path text.                            *)
(***************************************************************************)
EXTENDS Integers, Sequences, FiniteSets, TLC

VARIABLES
    pc,         \* where the session is: "constructed", "loop", "ended", or
                \* "crashed" when an exception left the loop
    cwd,        \* Shell.cwd
    dirs,       \* the directories that exist on disk
    files,      \* the files that exist on disk and their content
    running,    \* Shell._running
    session,    \* what Shell.__init__ fixes: sandbox_root, user, host and
                \* the registered commands
    gui,        \* the editor of the NoteHub window: current_note,
                \* edit_mode_type, the edit_mode of its text area, the
                \* fields of its VimMode, whether the window was closed,
                \* and the directory in which the editor was opened
    race,       \* two further sessions on the same sandbox root, each one
                \* inside a write command: where it is, what it read and
                \* what it writes
    last,       \* the tokens of the last line given to run_command, or
                \* the last event of the window
    out,        \* the string run_command returned for it, or what the
                \* event appended to the terminal or invoked on the text
    before      \* the state run_command found when it was given that line

vars == <<pc, cwd, dirs, files, running, session, gui, race, last, out, before>>

----------------------------------------------------------------------------
(* Bounds of the model.                                                    *)

\* longest note content that an appending edit may produce
MaxLen == 10
\* most files that may exist at once
MaxFiles == 1
\* most directories that may exist besides the ones the session starts with
MaxDirs == 1

----------------------------------------------------------------------------
(* Text: Python str operations.                                            *)

StartsWith(s, p) == Len(p) <= Len(s) /\ SubSeq(s, 1, Len(p)) = p

EndsWith(s, p) == Len(p) <= Len(s) /\ SubSeq(s, Len(s) - Len(p) + 1, Len(s)) = p

\* s[i:] for a 1-based i
From(s, i) == SubSeq(s, i, Len(s))

\* str.find, 1-based; 0 when absent
Find(s, p) ==
    LET hits == {i \in 1..(Len(s) - Len(p) + 1) : SubSeq(s, i, i + Len(p) - 1) = p}
    IN  IF hits = {} THEN 0 ELSE CHOOSE i \in hits : \A j \in hits : i <= j

\* the `in` operator on str
Contains(s, p) == Find(s, p) # 0

\* str.replace(old, new, 1)
ReplaceFirst(s, old, new) ==
    LET i == Find(s, old)
    IN  IF i = 0 THEN s
        ELSE SubSeq(s, 1, i - 1) \o new \o From(s, i + Len(old))

\* str.count: non-overlapping occurrences, left to right
RECURSIVE Count(_, _)
Count(s, p) ==
    LET i == Find(s, p)
    IN  IF i = 0 THEN 0 ELSE 1 + Count(From(s, i + Len(p)), p)

Whitespace == {" ", "\t", "\n", "\r", "\f"}

\* str.rstrip()
RECURSIVE RStrip(_)
RStrip(s) ==
    IF s # <<>> /\ s[Len(s)] \in Whitespace
    THEN RStrip(SubSeq(s, 1, Len(s) - 1))
    ELSE s

\* str.lstrip("/")
RECURSIVE LStripSlash(_)
LStripSlash(s) ==
    IF s # <<>> /\ s[1] = "/" THEN LStripSlash(Tail(s)) ELSE s

\* str.split(sep) for a one-character sep
RECURSIVE Split(_, _)
Split(s, sep) ==
    LET i == Find(s, <<sep>>)
    IN  IF i = 0 THEN <<s>>
        ELSE <<SubSeq(s, 1, i - 1)>> \o Split(From(s, i + 1), sep)

\* sep.join(parts)
RECURSIVE Join(_, _)
Join(parts, sep) ==
    IF parts = <<>> THEN <<>>
    ELSE IF Len(parts) = 1 THEN parts[1]
    ELSE parts[1] \o sep \o Join(Tail(parts), sep)

\* file.readlines(): the lines, each keeping its line end
RECURSIVE ReadLines(_)
ReadLines(s) ==
    LET i == Find(s, <<"\n">>)
    IN  IF s = <<>> THEN <<>>
        ELSE IF i = 0 THEN <<s>>
        ELSE <<SubSeq(s, 1, i)>> \o ReadLines(From(s, i + 1))

\* file.writelines(lines): the lines written one after the other
WriteLines(lines) == Join(lines, <<>>)

Digits == {"0", "1", "2", "3", "4", "5", "6", "7", "8", "9"}

DigitValue(c) ==
    CASE c = "0" -> 0 [] c = "1" -> 1 [] c = "2" -> 2 [] c = "3" -> 3
      [] c = "4" -> 4 [] c = "5" -> 5 [] c = "6" -> 6 [] c = "7" -> 7
      [] c = "8" -> 8 [] c = "9" -> 9

RECURSIVE DecimalValue(_)
DecimalValue(s) ==
    IF s = <<>> THEN 0
    ELSE 10 * DecimalValue(SubSeq(s, 1, Len(s) - 1)) + DigitValue(s[Len(s)])

\* whether int(s) succeeds: an optional sign and decimal digits
IsInt(s) ==
    LET body == IF s # <<>> /\ s[1] \in {"+", "-"} THEN Tail(s) ELSE s
    IN  body # <<>> /\ \A i \in 1..Len(body) : body[i] \in Digits

\* int(s) where it succeeds
IntOf(s) ==
    IF s[1] = "-" THEN 0 - DecimalValue(Tail(s))
    ELSE IF s[1] = "+" THEN DecimalValue(Tail(s))
    ELSE DecimalValue(s)

----------------------------------------------------------------------------
(* Paths: os.path on POSIX.                                                *)

SEP == <<"/">>
DOT == <<".">>
DOTDOT == <<".", ".">>

\* os.path.join(a, b)
PathJoin(a, b) ==
    IF StartsWith(b, SEP) THEN b
    ELSE IF a = <<>> \/ EndsWith(a, SEP) THEN a \o b
    ELSE a \o SEP \o b

\* the loop of posixpath.normpath over the components
RECURSIVE NormComps(_, _, _)
NormComps(comps, acc, rooted) ==
    IF comps = <<>> THEN acc
    ELSE LET c == Head(comps)
             rest == Tail(comps)
         IN  IF c = <<>> \/ c = DOT THEN NormComps(rest, acc, rooted)
             ELSE IF c # DOTDOT
                     \/ (~rooted /\ acc = <<>>)
                     \/ (acc # <<>> /\ acc[Len(acc)] = DOTDOT)
                  THEN NormComps(rest, Append(acc, c), rooted)
             ELSE IF acc # <<>>
                  THEN NormComps(rest, SubSeq(acc, 1, Len(acc) - 1), rooted)
             ELSE NormComps(rest, acc, rooted)

\* os.path.normpath(path)
normpath(path) ==
    IF path = <<>> THEN DOT
    ELSE LET slashes == IF ~StartsWith(path, SEP) THEN 0
                        ELSE IF StartsWith(path, <<"/", "/">>)
                                /\ ~StartsWith(path, <<"/", "/", "/">>)
                             THEN 2 ELSE 1
             body == Join(NormComps(Split(path, "/"), <<>>, slashes > 0), SEP)
             full == (IF slashes = 2 THEN <<"/", "/">>
                      ELSE IF slashes = 1 THEN SEP ELSE <<>>) \o body
         IN  IF full = <<>> THEN DOT ELSE full

\* the components of a normalized absolute path
Components(p) == SelectSeq(Split(p, "/"), LAMBDA c : c # <<>>)

\* os.path.dirname of a normalized absolute path
Parent(p) ==
    LET cs == Components(p)
    IN  IF Len(cs) <= 1 THEN SEP
        ELSE SEP \o Join(SubSeq(cs, 1, Len(cs) - 1), SEP)

Child(p, name) == IF p = SEP THEN p \o name ELSE p \o SEP \o name

\* p is d itself or lies below d in the directory tree
Within(p, d) == p = d \/ StartsWith(p, IF d = SEP THEN d ELSE d \o SEP)

----------------------------------------------------------------------------
(* The filesystem, as the os module sees it.  A state st is a record       *)
(* [cwd, dirs, files, running].                                            *)

\* the working directory of the process that runs the shell
getcwd == <<"/", "h">>

NOTES_DIR == <<"n", "o", "t", "e", "s">>

TXT == <<".", "t", "x", "t">>

\* os.path.abspath(NOTES_DIR), as Shell.__init__ computes it
sandbox_root == normpath(PathJoin(getcwd, NOTES_DIR))

NoFiles == [p \in {} |-> <<>>]

\* the kernel's walk along a path: every component passed through must be a
\* directory; "" and "." stay, ".." goes to the parent
RECURSIVE Walk(_, _, _)
Walk(st, comps, cur) ==
    IF comps = <<>> THEN [err |-> "", path |-> cur]
    ELSE IF cur \notin st.dirs
         THEN [err |-> IF cur \in DOMAIN st.files THEN "ENOTDIR" ELSE "ENOENT",
               path |-> cur]
    ELSE LET c == Head(comps)
         IN  IF c = <<>> \/ c = DOT THEN Walk(st, Tail(comps), cur)
             ELSE IF c = DOTDOT THEN Walk(st, Tail(comps), Parent(cur))
             ELSE Walk(st, Tail(comps), Child(cur, c))

Lookup(st, path) ==
    IF StartsWith(path, SEP) THEN Walk(st, Split(path, "/"), SEP)
    ELSE Walk(st, Split(path, "/"), getcwd)

\* os.path.exists
exists(st, path) ==
    LET r == Lookup(st, path)
    IN  r.err = "" /\ (r.path \in st.dirs \/ r.path \in DOMAIN st.files)

\* os.path.isdir
isdir(st, path) ==
    LET r == Lookup(st, path)
    IN  r.err = "" /\ r.path \in st.dirs

\* a returned string: the literal text of the source with {} where a value
\* is formatted in, and the values
Out(fmt, args) == [fmt |-> fmt, args |-> args]

OutIs(o, fmt, args) == o.fmt = fmt /\ o.args = args

\* str(e) of the OSError the os module raises
OSErrorText(err, path) ==
    CASE err = "ENOENT" -> Out("[Errno 2] No such file or directory: '{}'", <<path>>)
      [] err = "ENOTDIR" -> Out("[Errno 20] Not a directory: '{}'", <<path>>)
      [] err = "EISDIR" -> Out("[Errno 21] Is a directory: '{}'", <<path>>)
      [] err = "EEXIST" -> Out("[Errno 17] File exists: '{}'", <<path>>)

\* the text mode of open(filename, "r"): a carriage return and a line feed,
\* or a carriage return alone, are read as one line feed
RECURSIVE universal_newlines(_)
universal_newlines(s) ==
    IF s = <<>> THEN <<>>
    ELSE IF s[1] # "\r" THEN <<s[1]>> \o universal_newlines(Tail(s))
    ELSE IF Len(s) >= 2 /\ s[2] = "\n" THEN <<"\n">> \o universal_newlines(From(s, 3))
    ELSE <<"\n">> \o universal_newlines(Tail(s))

\* open(filename, "r").read(): [err, text]
ReadFile(st, filename) ==
    LET r == Lookup(st, filename)
    IN  IF r.err # "" THEN [err |-> r.err, text |-> <<>>]
        ELSE IF r.path \in st.dirs THEN [err |-> "EISDIR", text |-> <<>>]
        ELSE IF r.path \notin DOMAIN st.files THEN [err |-> "ENOENT", text |-> <<>>]
        ELSE [err |-> "", text |-> universal_newlines(st.files[r.path])]

\* a writer that opens the file in append mode
WriteFile_append(st, filename, text) ==
    LET r == Lookup(st, filename)
    IN  IF r.err # "" THEN [err |-> r.err, files |-> st.files]
        ELSE IF r.path \in st.dirs THEN [err |-> "EISDIR", files |-> st.files]
        ELSE [err |-> "",
              files |-> [p \in DOMAIN st.files \cup {r.path} |->
                            IF p # r.path THEN st.files[p]
                            ELSE IF p \in DOMAIN st.files THEN st.files[p] \o text
                            ELSE text]]

\* open(filename, "w").write(text): [err, files]
WriteFile(st, filename, text) ==
    LET r == Lookup(st, filename)
    IN  IF r.err # "" THEN [err |-> r.err, files |-> st.files]
        ELSE IF r.path \in st.dirs THEN [err |-> "EISDIR", files |-> st.files]
        ELSE [err |-> "",
              files |-> [p \in DOMAIN st.files \cup {r.path} |->
                            IF p = r.path THEN text ELSE st.files[p]]]

\* os.remove(filename): [err, files]
RemoveFile(st, filename) ==
    LET r == Lookup(st, filename)
    IN  IF r.err # "" THEN [err |-> r.err, files |-> st.files]
        ELSE IF r.path \in st.dirs THEN [err |-> "EISDIR", files |-> st.files]
        ELSE IF r.path \notin DOMAIN st.files THEN [err |-> "ENOENT", files |-> st.files]
        ELSE [err |-> "", files |-> [p \in DOMAIN st.files \ {r.path} |-> st.files[p]]]

\* the path and its ancestors, the root excluded
Prefixes(path) ==
    LET cs == Components(path)
    IN  {SEP \o Join(SubSeq(cs, 1, k), SEP) : k \in 1..Len(cs)}

\* os.makedirs(path, exist_ok=True) of a normalized path: [err, at, dirs]
makedirs(st, path) ==
    LET blocked == {p \in Prefixes(path) : p \in DOMAIN st.files}
    IN  IF path \in blocked
        THEN [err |-> "EEXIST", at |-> path, dirs |-> st.dirs]
        ELSE IF blocked # {}
        THEN [err |-> "ENOTDIR",
              at |-> CHOOSE q \in Prefixes(path) : Parent(q) \in blocked,
              dirs |-> st.dirs]
        ELSE [err |-> "", at |-> path, dirs |-> st.dirs \cup Prefixes(path)]

\* a removal that empties the folder and drops it, leaving what is nested
\* deeper
rmtree_shallow(st, path) ==
    [dirs |-> st.dirs \ {path},
     files |-> [p \in {q \in DOMAIN st.files : Parent(q) # path} |-> st.files[p]]]

\* shutil.rmtree(path) of an existing directory: [dirs, files]
rmtree(st, path) ==
    [dirs |-> {d \in st.dirs : ~Within(d, path)},
     files |-> [p \in {q \in DOMAIN st.files : ~Within(q, path)} |-> st.files[p]]]

\* the last component of a normalized path
BaseName(p) == LET cs == Components(p) IN cs[Len(cs)]

\* os.listdir(target) of an existing directory: the names in it
listdir(st, target) ==
    LET t == Lookup(st, target).path
    IN  {BaseName(p) : p \in {q \in (st.dirs \cup DOMAIN st.files) \ {SEP} :
                                 Parent(q) = t}}

\* the characters in code point order
CodePoints ==
    <<"\t", "\n", "\f", "\r", " ", "'", "+", "-", ".", "/",
      "0", "1", "2", "3", "4", "5", "6", "7", "8", "9",
      "D", "E", "I", "M", "N", "O", "V", "[", "]",
      "a", "b", "c", "d", "e", "h", "i", "m", "n", "o", "p", "r", "s", "t",
      "u", "v", "w", "x", "z", "~">>

Ord(c) == CHOOSE i \in 1..Len(CodePoints) : CodePoints[i] = c

\* s < t for str
RECURSIVE StrLess(_, _)
StrLess(s, t) ==
    IF t = <<>> THEN FALSE
    ELSE IF s = <<>> THEN TRUE
    ELSE IF s[1] = t[1] THEN StrLess(Tail(s), Tail(t))
    ELSE Ord(s[1]) < Ord(t[1])

\* sorted(names)
RECURSIVE Sorted(_)
Sorted(names) ==
    IF names = {} THEN <<>>
    ELSE LET m == CHOOSE x \in names : \A y \in names \ {x} : StrLess(x, y)
         IN  <<m>> \o Sorted(names \ {m})

----------------------------------------------------------------------------
(* class Shell: the path resolver and the command handlers.  A handler     *)
(* takes the state and its argument tokens and gives the returned string   *)
(* and the state it leaves: [out, cwd, dirs, files, running].              *)

Ret(st, o) ==
    [out |-> o, cwd |-> st.cwd, dirs |-> st.dirs, files |-> st.files,
     running |-> st.running]

StateOf(r) ==
    [cwd |-> r.cwd, dirs |-> r.dirs, files |-> r.files, running |-> r.running]

\* the ValueError text of _resolve_path ("ausserhalb" is written with a
\* sharp s in the source)
SandboxViolation == Out("Zugriff ausserhalb der notes/ Umgebung nicht erlaubt", <<>>)

\* the containment test of _resolve_path: a prefix test on the path text
InSandboxText(target) == StartsWith(target, sandbox_root)

\* a resolver that joins every path to the current directory once its
\* leading slashes are gone
_resolve_path_from_cwd(st, user_path) ==
    LET target == normpath(PathJoin(st.cwd, LStripSlash(user_path)))
    IN  [ok |-> InSandboxText(target), target |-> target]

\* Shell._resolve_path: [ok, target]; ~ok is the raised ValueError
_resolve_path(st, user_path) ==
    LET target == IF StartsWith(user_path, SEP)
                  THEN normpath(PathJoin(sandbox_root, LStripSlash(user_path)))
                  ELSE normpath(PathJoin(st.cwd, user_path))
    IN  [ok |-> InSandboxText(target), target |-> target]

\* os.path.relpath(path, start) of two normalized absolute paths
relpath(path, start) ==
    LET sl == Components(start)
        pl == Components(path)
        m == IF Len(sl) < Len(pl) THEN Len(sl) ELSE Len(pl)
        common == {k \in 0..m : SubSeq(sl, 1, k) = SubSeq(pl, 1, k)}
        i == CHOOSE k \in common : \A j \in common : j <= k
        rel == [k \in 1..(Len(sl) - i) |-> DOTDOT] \o SubSeq(pl, i + 1, Len(pl))
    IN  IF rel = <<>> THEN DOT ELSE Join(rel, SEP)

\* a display path without the special case of the root and the leading
\* separator
_get_relative_path_plain(path) == relpath(path, sandbox_root)

\* Shell._get_relative_path
_get_relative_path(path) ==
    IF path = sandbox_root THEN SEP ELSE SEP \o relpath(path, sandbox_root)

\* a note file looked for in the sandbox root, wherever the session is
NoteFile_in_root(st, title) == PathJoin(sandbox_root, title \o TXT)

\* the note file of a title in the current directory
NoteFile(st, title) == PathJoin(st.cwd, title \o TXT)

NotADirectory(arg) == Out("'{}' is not a directory", <<arg>>)

\* Shell._ls
_ls(st, args) ==
    LET r == IF args # <<>> THEN _resolve_path(st, args[1])
             ELSE [ok |-> TRUE, target |-> st.cwd]
    IN  IF ~r.ok THEN Ret(st, SandboxViolation)
        ELSE IF ~isdir(st, r.target)
        THEN IF args = <<>> THEN Ret(st, Out("list index out of range", <<>>))
             ELSE Ret(st, NotADirectory(args[1]))
        ELSE LET entries == Sorted(listdir(st, r.target))
                 result == [k \in 1..Len(entries) |->
                               IF isdir(st, PathJoin(r.target, entries[k]))
                               THEN entries[k] \o SEP ELSE entries[k]]
             IN  IF entries = <<>> THEN Ret(st, Out("", <<>>))
                 ELSE Ret(st, Out("{}", <<Join(result, <<"\n">>)>>))

\* Shell._pwd
_pwd(st, args) == Ret(st, Out("{}", <<_get_relative_path(st.cwd)>>))

TILDE == <<"~">>

\* Shell._cd
_cd(st, args) ==
    IF args = <<>> \/ args[1] = TILDE
    THEN [Ret(st, Out("", <<>>)) EXCEPT !.cwd = sandbox_root]
    ELSE LET r == _resolve_path(st, args[1])
         IN  IF ~r.ok THEN Ret(st, SandboxViolation)
             ELSE IF ~isdir(st, r.target) THEN Ret(st, NotADirectory(args[1]))
             ELSE [Ret(st, Out("", <<>>)) EXCEPT !.cwd = r.target]

\* " ".join(tokens)
JoinSpaces(tokens) == Join(tokens, <<" ">>)

\* an add that asks for a title only and writes an empty note for it
_add_titled(st, args) ==
    IF Len(args) < 1 THEN Ret(st, Out("Usage: add <title> <content>", <<>>))
    ELSE LET title == args[1]
             content == JoinSpaces(Tail(args))
             filename == NoteFile(st, title)
             w == WriteFile(st, filename, content)
         IN  IF w.err # "" THEN Ret(st, OSErrorText(w.err, filename))
             ELSE [Ret(st, Out("Note '{}' created.", <<title>>)) EXCEPT !.files = w.files]

\* Shell._add
_add(st, args) ==
    IF Len(args) < 2 THEN Ret(st, Out("Usage: add <title> <content>", <<>>))
    ELSE LET title == args[1]
             content == JoinSpaces(Tail(args))
             filename == NoteFile(st, title)
             w == WriteFile(st, filename, content)
         IN  IF w.err # "" THEN Ret(st, OSErrorText(w.err, filename))
             ELSE [Ret(st, Out("Note '{}' created.", <<title>>)) EXCEPT !.files = w.files]

REPLACE_FLAG == <<"-", "-", "r", "e", "p", "l", "a", "c", "e">>

\* an appending edit that separates with a newline even after empty content
AppendedText_always(existing, new_text) ==
    IF ~EndsWith(existing, <<"\n">>)
    THEN existing \o <<"\n">> \o new_text
    ELSE existing \o new_text

\* what the appending edit writes
AppendedText(existing, new_text) ==
    IF existing # <<>> /\ ~EndsWith(existing, <<"\n">>)
    THEN existing \o <<"\n">> \o new_text
    ELSE existing \o new_text

\* Shell._edit
_edit(st, args) ==
    IF Len(args) < 2 THEN Ret(st, Out("Usage: edit <title> <text> [--replace]", <<>>))
    ELSE LET title == args[1]
             filename == NoteFile(st, title)
             replace_mode == \E k \in 1..Len(args) : args[k] = REPLACE_FLAG
             new_text == IF replace_mode
                         THEN JoinSpaces(SelectSeq(Tail(args), LAMBDA a : a # REPLACE_FLAG))
                         ELSE JoinSpaces(Tail(args))
         IN  IF ~exists(st, filename)
             THEN Ret(st, Out("Note '{}' not found. Use 'add' to create.", <<title>>))
             ELSE IF replace_mode
             THEN LET w == WriteFile(st, filename, new_text)
                  IN  IF w.err # "" THEN Ret(st, OSErrorText(w.err, filename))
                      ELSE [Ret(st, Out("Note '{}' replaced.", <<title>>))
                               EXCEPT !.files = w.files]
             ELSE LET rd == ReadFile(st, filename)
                      w == WriteFile(st, filename, AppendedText(rd.text, new_text))
                  IN  IF rd.err # "" THEN Ret(st, OSErrorText(rd.err, filename))
                      ELSE IF w.err # "" THEN Ret(st, OSErrorText(w.err, filename))
                      ELSE [Ret(st, Out("Text added to note '{}'.", <<title>>))
                               EXCEPT !.files = w.files]

FolderFlags == {<<"-", "d">>,
                <<"-", "-", "f", "o", "l", "d", "e", "r">>,
                <<"-", "-", "d", "i", "r">>}

\* Shell._remove
_remove(st, args) ==
    IF args = <<>> THEN Ret(st, Out("Usage: remove <title> or remove -d <folder>", <<>>))
    ELSE IF args[1] \in FolderFlags
    THEN IF Len(args) < 2 THEN Ret(st, Out("Usage: remove -d <folder>", <<>>))
         ELSE LET target_name == args[2]
                  r == _resolve_path(st, target_name)
                  t == rmtree(st, Lookup(st, r.target).path)
              IN  IF ~r.ok THEN Ret(st, SandboxViolation)
                  ELSE IF exists(st, r.target) /\ isdir(st, r.target)
                  THEN [Ret(st, Out("Folder '{}' and its content deleted.", <<target_name>>))
                           EXCEPT !.dirs = t.dirs, !.files = t.files]
                  ELSE Ret(st, Out("Folder '{}' not found.", <<target_name>>))
    ELSE LET target_name == args[1]
             filename == NoteFile(st, target_name)
             w == RemoveFile(st, filename)
         IN  IF ~exists(st, filename)
             THEN Ret(st, Out("Note '{}' not found.", <<target_name>>))
             ELSE IF w.err # "" THEN Ret(st, OSErrorText(w.err, filename))
             ELSE [Ret(st, Out("Note '{}' deleted.", <<target_name>>))
                      EXCEPT !.files = w.files]

\* Shell._list
_list(st, args) ==
    LET names == IF isdir(st, st.cwd) THEN listdir(st, st.cwd) ELSE {}
        notes == {SubSeq(f, 1, Len(f) - 4) : f \in {g \in names : EndsWith(g, TXT)}}
        lines == [k \in 1..Cardinality(notes) |-> <<" ", "-", " ">> \o Sorted(notes)[k]]
    IN  IF ~isdir(st, st.cwd)
        THEN Ret(st, OSErrorText(IF Lookup(st, st.cwd).err = "ENOTDIR" THEN "ENOTDIR"
                                 ELSE "ENOENT", st.cwd))
        ELSE IF notes # {}
        THEN Ret(st, Out("Notes in this directory:\n{}", <<Join(lines, <<"\n">>)>>))
        ELSE Ret(st, Out("No notes in this directory.", <<>>))

DONE_MARKER == <<"[", "D", "O", "N", "E", "]">>

\* a test that looks for the marker only at the start of the content
is_done_at_start(content) == StartsWith(content, DONE_MARKER)

\* the test of _done for a note already done
is_done(content) == Contains(content, DONE_MARKER)

\* a marker appended to the content as it is
done_text_untrimmed(content) == content \o <<"\n">> \o DONE_MARKER \o <<"\n">>

\* what _done writes
done_text(content) == RStrip(content) \o <<"\n">> \o DONE_MARKER \o <<"\n">>

\* Shell._done
_done(st, args) ==
    IF args = <<>> THEN Ret(st, Out("Usage: done <title>", <<>>))
    ELSE LET filename == NoteFile(st, args[1])
             rd == ReadFile(st, filename)
             w == WriteFile(st, filename, done_text(rd.text))
         IN  IF ~exists(st, filename) THEN Ret(st, Out("Note '{}' not found.", <<args[1]>>))
             ELSE IF rd.err # "" THEN Ret(st, OSErrorText(rd.err, filename))
             ELSE IF is_done(rd.text)
             THEN Ret(st, Out("Note '{}' is already done.", <<args[1]>>))
             ELSE IF w.err # "" THEN Ret(st, OSErrorText(w.err, filename))
             ELSE [Ret(st, Out("Note '{}' marked as done.", <<args[1]>>))
                      EXCEPT !.files = w.files]

UNCHECKED == <<"[", " ", "]">>
CHECKED == <<"[", "x", "]">>

\* a parse that skips the tokens that are no integers
parse_line_numbers_lenient(tokens) ==
    LET good == SelectSeq(tokens, IsInt)
    IN  [ok |-> TRUE, nums |-> [k \in 1..Len(good) |-> IntOf(good[k])]]

\* the int() of every line-number token: [ok, nums]; ~ok is the ValueError
parse_line_numbers(tokens) ==
    LET ok == \A k \in 1..Len(tokens) : IsInt(tokens[k])
    IN  [ok |-> ok,
         nums |-> IF ok THEN [k \in 1..Len(tokens) |-> IntOf(tokens[k])] ELSE <<>>]

\* the toggle of one line: [line, result]
toggle_line(line, line_num) ==
    IF Contains(line, UNCHECKED)
    THEN [line |-> ReplaceFirst(line, UNCHECKED, CHECKED),
          modified |-> TRUE,
          result |-> Out("Line {} checked", <<line_num>>)]
    ELSE IF Contains(line, CHECKED)
    THEN [line |-> ReplaceFirst(line, CHECKED, UNCHECKED),
          modified |-> TRUE,
          result |-> Out("Line {} unchecked", <<line_num>>)]
    ELSE [line |-> line,
          modified |-> FALSE,
          result |-> Out("Line {} is not a todo item (missing [ ] or [x])", <<line_num>>)]

\* a loop that puts each result in front of the ones before it
RECURSIVE check_loop_reversed(_, _, _, _)
check_loop_reversed(lines, nums, results, modified) ==
    IF nums = <<>> THEN [lines |-> lines, results |-> results, modified |-> modified]
    ELSE LET line_num == Head(nums)
         IN  IF line_num < 1 \/ line_num > Len(lines)
             THEN check_loop_reversed(lines, Tail(nums),
                                      <<Out("Line {} out of range (1-{})",
                                            <<line_num, Len(lines)>>)>> \o results,
                                      modified)
             ELSE LET t == toggle_line(lines[line_num], line_num)
                  IN  check_loop_reversed([lines EXCEPT ![line_num] = t.line],
                                          Tail(nums), <<t.result>> \o results,
                                          modified \/ t.modified)

\* the loop of _check over the line numbers: [lines, results, modified]
RECURSIVE check_loop(_, _, _, _)
check_loop(lines, nums, results, modified) ==
    IF nums = <<>> THEN [lines |-> lines, results |-> results, modified |-> modified]
    ELSE LET line_num == Head(nums)
         IN  IF line_num < 1 \/ line_num > Len(lines)
             THEN check_loop(lines, Tail(nums),
                             Append(results, Out("Line {} out of range (1-{})",
                                                 <<line_num, Len(lines)>>)),
                             modified)
             ELSE LET t == toggle_line(lines[line_num], line_num)
                  IN  check_loop([lines EXCEPT ![line_num] = t.line], Tail(nums),
                                 Append(results, t.result),
                                 modified \/ t.modified)

\* Shell._check; the returned string is the results joined by newlines
_check(st, args) ==
    IF Len(args) < 2
    THEN Ret(st, Out("Usage: check <title> <line_number> [line_number2 ...]", <<>>))
    ELSE LET title == args[1]
             parsed == parse_line_numbers(Tail(args))
             filename == NoteFile(st, title)
             rd == ReadFile(st, filename)
             done == check_loop(ReadLines(rd.text), parsed.nums, <<>>, FALSE)
             w == WriteFile(st, filename, WriteLines(done.lines))
         IN  IF ~parsed.ok THEN Ret(st, Out("All line numbers must be integers.", <<>>))
             ELSE IF ~exists(st, filename) THEN Ret(st, Out("Note '{}' not found.", <<title>>))
             ELSE IF rd.err # "" THEN Ret(st, OSErrorText(rd.err, filename))
             ELSE IF ~done.modified THEN Ret(st, Out("{results}", done.results))
             ELSE IF w.err # "" THEN Ret(st, OSErrorText(w.err, filename))
             ELSE [Ret(st, Out("{results}", done.results)) EXCEPT !.files = w.files]

\* a show that opens the note for appending and reading, which creates it
_show_creating(st, args) ==
    IF args = <<>> THEN Ret(st, Out("Usage: show <title>", <<>>))
    ELSE LET filename == NoteFile(st, args[1])
             w == WriteFile_append(st, filename, <<>>)
         IN  IF w.err # "" THEN Ret(st, OSErrorText(w.err, filename))
             ELSE [Ret(st, Out("=== {} ===\n{}", <<args[1], w.files[Lookup(st, filename).path]>>))
                      EXCEPT !.files = w.files]

\* Shell._show
_show(st, args) ==
    IF args = <<>> THEN Ret(st, Out("Usage: show <title>", <<>>))
    ELSE LET filename == NoteFile(st, args[1])
             rd == ReadFile(st, filename)
         IN  IF ~exists(st, filename) THEN Ret(st, Out("Note '{}' not found.", <<args[1]>>))
             ELSE IF rd.err # "" THEN Ret(st, OSErrorText(rd.err, filename))
             ELSE Ret(st, Out("=== {} ===\n{}", <<args[1], rd.text>>))

\* a mkdir that also enters the directory it made
_mkdir_enter(st, args) ==
    IF args = <<>> THEN Ret(st, Out("Usage: mkdir <name>", <<>>))
    ELSE LET r == _resolve_path(st, args[1])
             m == makedirs(st, r.target)
         IN  IF ~r.ok THEN Ret(st, SandboxViolation)
             ELSE IF m.err # "" THEN Ret(st, OSErrorText(m.err, m.at))
             ELSE [Ret(st, Out("Directory '{}' created.", <<args[1]>>))
                      EXCEPT !.dirs = m.dirs, !.cwd = r.target]

\* Shell._mkdir
_mkdir(st, args) ==
    IF args = <<>> THEN Ret(st, Out("Usage: mkdir <name>", <<>>))
    ELSE LET r == _resolve_path(st, args[1])
             m == makedirs(st, r.target)
         IN  IF ~r.ok THEN Ret(st, SandboxViolation)
             ELSE IF m.err # "" THEN Ret(st, OSErrorText(m.err, m.at))
             ELSE [Ret(st, Out("Directory '{}' created.", <<args[1]>>))
                      EXCEPT !.dirs = m.dirs]

\* Shell._clear: the escape sequence ESC c
_clear(st, args) == Ret(st, Out("<ESC>c", <<>>))

UpperCase == <<"D", "E", "I", "M", "N", "O", "V">>
LowerCase == <<"d", "e", "i", "m", "n", "o", "v">>

\* str.lower() over the letters of the model
Lower(s) ==
    [k \in 1..Len(s) |->
        IF \E j \in 1..Len(UpperCase) : UpperCase[j] = s[k]
        THEN LowerCase[CHOOSE j \in 1..Len(UpperCase) : UpperCase[j] = s[k]]
        ELSE s[k]]

\* Shell._help: the Vim text for the topic vim, else the command table
_help(st, args) ==
    IF args # <<>> /\ Lower(args[1]) = <<"v", "i", "m">>
    THEN Ret(st, Out("{_get_vim_help}", <<>>))
    ELSE Ret(st, Out("{get_help}", <<>>))

\* an exit that answers and leaves the loop's flag set
_exit_staying(st, args) == Ret(st, Out("Bye.", <<>>))

\* Shell._exit
_exit(st, args) == [Ret(st, Out("Bye.", <<>>)) EXCEPT !.running = FALSE]

\* Shell.commands: the registered names (send, the e-mail forwarder, is
\* outside the shell that is modelled)
commands ==
    {"help", "exit", "ls", "pwd", "cd", "add", "edit", "remove", "done",
     "check", "show", "list", "mkdir", "clear"}

\* Shell.run_command after the line is split: the dispatch on the first token
dispatch(st, cmd, args) ==
    IF cmd \notin commands THEN Ret(st, Out("Command not found: {}", <<cmd>>))
    ELSE CASE cmd = "help" -> _help(st, args)
           [] cmd = "exit" -> _exit(st, args)
           [] cmd = "ls" -> _ls(st, args)
           [] cmd = "pwd" -> _pwd(st, args)
           [] cmd = "cd" -> _cd(st, args)
           [] cmd = "add" -> _add(st, args)
           [] cmd = "edit" -> _edit(st, args)
           [] cmd = "remove" -> _remove(st, args)
           [] cmd = "done" -> _done(st, args)
           [] cmd = "check" -> _check(st, args)
           [] cmd = "show" -> _show(st, args)
           [] cmd = "list" -> _list(st, args)
           [] cmd = "mkdir" -> _mkdir(st, args)
           [] cmd = "clear" -> _clear(st, args)

----------------------------------------------------------------------------
(* Shell.run_command: from the line to the tokens, then the dispatch.      *)

\* a test for the empty line only
IsBlank_empty(line) == line = <<>>

\* whether line.strip() is empty
IsBlank(line) == \A k \in 1..Len(line) : line[k] \in Whitespace

\* what shlex takes for white space, for a quote and for the escape
ShlexWhitespace == {" ", "\t", "\r", "\n"}
ShlexQuotes == {"'", "\""}
ShlexEscape == "\\"

\* shlex.split(line): the scanner of shlex in POSIX mode, splitting on white
\* space only.  state is " " between tokens, "a" inside a word, a quote
\* inside quotes and the escape after an escape; esc is the state an escape
\* returns to.  [ok, parts]; ~ok is the ValueError of an open quote or of an
\* escape with nothing after it.
RECURSIVE shlex_scan(_, _, _, _, _, _)
shlex_scan(s, state, esc, token, quoted, parts) ==
    IF s = <<>>
    THEN IF state \in ShlexQuotes \/ state = ShlexEscape
         THEN [ok |-> FALSE, parts |-> <<>>]
         ELSE IF state = "a" /\ (token # <<>> \/ quoted)
         THEN [ok |-> TRUE, parts |-> Append(parts, token)]
         ELSE [ok |-> TRUE, parts |-> parts]
    ELSE LET c == Head(s)
             rest == Tail(s)
         IN  IF state = " "
             THEN IF c \in ShlexWhitespace
                  THEN shlex_scan(rest, " ", esc, token, quoted, parts)
                  ELSE IF c = ShlexEscape
                  THEN shlex_scan(rest, ShlexEscape, "a", token, quoted, parts)
                  ELSE IF c \in ShlexQuotes
                  THEN shlex_scan(rest, c, esc, token, quoted, parts)
                  ELSE shlex_scan(rest, "a", esc, <<c>>, quoted, parts)
             ELSE IF state \in ShlexQuotes
             THEN IF c = state
                  THEN shlex_scan(rest, "a", esc, token, TRUE, parts)
                  ELSE IF c = ShlexEscape /\ state = "\""
                  THEN shlex_scan(rest, ShlexEscape, state, token, TRUE, parts)
                  ELSE shlex_scan(rest, state, esc, Append(token, c), TRUE, parts)
             ELSE IF state = ShlexEscape
             THEN IF esc \in ShlexQuotes /\ c # ShlexEscape /\ c # esc
                  THEN shlex_scan(rest, esc, esc, token \o <<ShlexEscape, c>>, quoted, parts)
                  ELSE shlex_scan(rest, esc, esc, Append(token, c), quoted, parts)
             ELSE IF c \in ShlexWhitespace
                  THEN IF token # <<>> \/ quoted
                       THEN shlex_scan(rest, " ", esc, <<>>, FALSE, Append(parts, token))
                       ELSE shlex_scan(rest, " ", esc, token, quoted, parts)
                  ELSE IF c \in ShlexQuotes
                  THEN shlex_scan(rest, c, esc, token, quoted, parts)
                  ELSE IF c = ShlexEscape
                  THEN shlex_scan(rest, ShlexEscape, "a", token, quoted, parts)
                  ELSE shlex_scan(rest, "a", esc, Append(token, c), quoted, parts)

shlex_split(line) == shlex_scan(line, " ", " ", <<>>, FALSE, <<>>)

\* str.split(): the runs of characters that are no white space
RECURSIVE str_split(_, _, _)
str_split(s, token, parts) ==
    IF s = <<>> THEN IF token # <<>> THEN Append(parts, token) ELSE parts
    ELSE IF Head(s) \in Whitespace
    THEN str_split(Tail(s), <<>>, IF token # <<>> THEN Append(parts, token) ELSE parts)
    ELSE str_split(Tail(s), Append(token, Head(s)), parts)

\* the registered names as the text of a first token
CommandText ==
    [c \in commands |->
        CASE c = "help" -> <<"h", "e", "l", "p">>
          [] c = "exit" -> <<"e", "x", "i", "t">>
          [] c = "ls" -> <<"l", "s">>
          [] c = "pwd" -> <<"p", "w", "d">>
          [] c = "cd" -> <<"c", "d">>
          [] c = "add" -> <<"a", "d", "d">>
          [] c = "edit" -> <<"e", "d", "i", "t">>
          [] c = "remove" -> <<"r", "e", "m", "o", "v", "e">>
          [] c = "done" -> <<"d", "o", "n", "e">>
          [] c = "check" -> <<"c", "h", "e", "c", "k">>
          [] c = "show" -> <<"s", "h", "o", "w">>
          [] c = "list" -> <<"l", "i", "s", "t">>
          [] c = "mkdir" -> <<"m", "k", "d", "i", "r">>
          [] c = "clear" -> <<"c", "l", "e", "a", "r">>]

\* the names a first token selects, by a lookup that ignores case
lookup_command_caseless(cmd) == {c \in commands : CommandText[c] = Lower(cmd)}

\* `cmd in self.commands`: the names a first token selects
lookup_command(cmd) == {c \in commands : CommandText[c] = cmd}

\* a split whose fallback keeps the line as one token
split_line_whole(line) ==
    LET sh == shlex_split(line)
    IN  IF sh.ok THEN [raised |-> "", parts |-> sh.parts]
        ELSE [raised |-> "", parts |-> <<line>>]

\* a split that lets the ValueError of shlex through
split_line_strict(line) ==
    LET sh == shlex_split(line)
    IN  IF sh.ok THEN [raised |-> "", parts |-> sh.parts]
        ELSE [raised |-> "ValueError", parts |-> <<>>]

\* the tokens of the line: shlex.split, and str.split when shlex fails;
\* [raised, parts], raised naming an exception that is not caught
split_line(line) ==
    LET sh == shlex_split(line)
    IN  IF sh.ok THEN [raised |-> "", parts |-> sh.parts]
        ELSE [raised |-> "", parts |-> str_split(line, <<>>, <<>>)]

\* what run_command gives: the result of a handler and no exception, or an
\* exception that leaves run_command and no string
Returned(r) ==
    [out |-> r.out, cwd |-> r.cwd, dirs |-> r.dirs, files |-> r.files,
     running |-> r.running, raised |-> ""]

Raised(st, exception) ==
    [out |-> Out("", <<>>), cwd |-> st.cwd, dirs |-> st.dirs, files |-> st.files,
     running |-> st.running, raised |-> exception]

\* Shell.run_command
run_command(st, line) ==
    IF IsBlank(line) THEN Returned(Ret(st, Out("", <<>>)))
    ELSE LET sp == split_line(line)
         IN  IF sp.raised # "" THEN Raised(st, sp.raised)
             ELSE IF sp.parts = <<>> THEN Raised(st, "IndexError")
             ELSE LET cmd == sp.parts[1]
                      args == Tail(sp.parts)
                  IN  IF lookup_command(cmd) # {}
                      THEN Returned(dispatch(st, CHOOSE c \in lookup_command(cmd) : TRUE,
                                             args))
                      ELSE Returned(Ret(st, Out("Command not found: {}", <<cmd>>)))

----------------------------------------------------------------------------
(* The session: Shell.__init__, Shell.interactive and one action per       *)
(* command.  An input record I names the argument tokens a specification   *)
(* draws from: paths, titles, contents (token lists), texts (token lists), *)
(* flags (the token lists that may follow an edit's text), lines           *)
(* (line-number token lists) and the bounds maxFiles and maxDirs.          *)

State == [cwd |-> cwd, dirs |-> dirs, files |-> files, running |-> running]

\* the directories that exist once ensure_notes_dir has run
InitDirs == {SEP} \cup Prefixes(sandbox_root)

\* the user and the host of the process, as Shell.__init__ reads them
USER == <<"u">>
HOST == <<"h">>

\* the fields Shell.__init__ sets once
InitSession ==
    [sandbox_root |-> sandbox_root, user |-> USER, host |-> HOST,
     commands |-> commands \cup {"send"}]

\* the sessions that share the sandbox root with the first one
Sessions == {1, 2}

\* a session that has not begun its command
IdleSession ==
    [pc |-> "idle", cmd |-> "", args |-> <<>>, file |-> <<>>, text |-> <<>>,
     out |-> Out("", <<>>), began |-> 0, opened |-> 0, flushed |-> 0]

InitRace == [sess |-> [s \in Sessions |-> IdleSession], clock |-> 0]

\* VimMode.__init__
InitVim ==
    [enabled |-> FALSE, current_mode |-> "normal", command_buffer |-> "",
     last_insert_key |-> ""]

\* NoteHub.__init__: no note is open and the editor is not in edit mode;
\* opened_in records the shell's directory at the time add or edit last put
\* the editor in edit mode (the window keeps the title only)
InitGui ==
    [current_note |-> <<>>, edit_mode_type |-> "None", edit_mode |-> FALSE,
     closed |-> FALSE, opened_in |-> <<>>, vim |-> InitVim]

\* Shell.__init__
Init ==
    /\ pc = "constructed"
    /\ cwd = sandbox_root
    /\ session = InitSession
    /\ race = InitRace
    /\ gui = InitGui
    /\ dirs = InitDirs
    /\ files = NoFiles
    /\ running = FALSE
    /\ last = [cmd |-> "", args |-> <<>>]
    /\ out = Out("", <<>>)
    /\ before = [cwd |-> sandbox_root, dirs |-> InitDirs, files |-> NoFiles,
                 running |-> FALSE]

\* Shell.interactive, up to the loop
Interactive ==
    /\ pc = "constructed"
    /\ pc' = "loop"
    /\ running' = TRUE
    /\ UNCHANGED <<cwd, dirs, files, session, gui, race, last, out, before>>

\* input() raises EOFError: the loop is left
EndOfInput ==
    /\ pc = "loop"
    /\ pc' = "ended"
    /\ UNCHANGED <<cwd, dirs, files, running, session, gui, race, last, out, before>>

\* the bounds of the model on what a step may leave behind; the input
\* record names the most files and the most added directories
WithinBounds(I, cmd, r) ==
    /\ Cardinality(DOMAIN r.files) <= I.maxFiles
    /\ Cardinality(r.dirs) <= Cardinality(InitDirs) + I.maxDirs
    /\ cmd = "edit" =>
          \A f \in DOMAIN r.files :
              (f \in DOMAIN files /\ r.files[f] # files[f]) => Len(r.files[f]) <= MaxLen

\* one turn of the loop of Shell.interactive on the tokens of the line read:
\* r is what the handler that run_command dispatches to returns; then the
\* test of the loop
Step(I, cmd, args, r) ==
    /\ WithinBounds(I, cmd, r)
    /\ cwd' = r.cwd
    /\ dirs' = r.dirs
    /\ files' = r.files
    /\ running' = r.running
    /\ session' = session
    /\ race' = race
    /\ gui' = gui
    /\ last' = [cmd |-> cmd, args |-> args]
    /\ out' = r.out
    /\ before' = State
    /\ pc' = IF r.running THEN "loop" ELSE "ended"

Help(I) ==
    \E a \in {<<>>, <<<<"V", "i", "m">>>>} :
        /\ pc = "loop"
        /\ \E r \in {_help(State, a)} : Step(I, "help", a, r)

Exit(I) ==
    /\ pc = "loop"
    /\ \E r \in {_exit(State, <<>>)} : Step(I, "exit", <<>>, r)

Ls(I) ==
    \E a \in {<<>>} \cup {<<p>> : p \in I.paths} :
        /\ pc = "loop"
        /\ \E r \in {_ls(State, a)} : Step(I, "ls", a, r)

Pwd(I) ==
    /\ pc = "loop"
    /\ \E r \in {_pwd(State, <<>>)} : Step(I, "pwd", <<>>, r)

Cd(I) ==
    \E a \in {<<>>, <<TILDE>>} \cup {<<p>> : p \in I.paths} :
        /\ pc = "loop"
        /\ \E r \in {_cd(State, a)} : Step(I, "cd", a, r)

Add(I) ==
    \E t \in I.titles, c \in I.contents :
        /\ pc = "loop"
        /\ \E r \in {_add(State, <<t>> \o c)} : Step(I, "add", <<t>> \o c, r)

Edit(I) ==
    \E t \in I.titles, x \in I.texts, flag \in I.flags :
        /\ pc = "loop"
        /\ \E r \in {_edit(State, <<t>> \o x \o flag)} : Step(I, "edit", <<t>> \o x \o flag, r)

Remove(I) ==
    \E a \in {<<t>> : t \in I.titles} \cup {<<<<"-", "d">>, p>> : p \in I.paths} :
        /\ pc = "loop"
        /\ \E r \in {_remove(State, a)} : Step(I, "remove", a, r)

Done(I) ==
    \E t \in I.titles :
        /\ pc = "loop"
        /\ \E r \in {_done(State, <<t>>)} : Step(I, "done", <<t>>, r)

Check(I) ==
    \E t \in I.titles, n \in I.lines :
        /\ pc = "loop"
        /\ \E r \in {_check(State, <<t>> \o n)} : Step(I, "check", <<t>> \o n, r)

Show(I) ==
    \E t \in I.titles :
        /\ pc = "loop"
        /\ \E r \in {_show(State, <<t>>)} : Step(I, "show", <<t>>, r)

List(I) ==
    /\ pc = "loop"
    /\ \E r \in {_list(State, <<>>)} : Step(I, "list", <<>>, r)

Mkdir(I) ==
    \E p \in I.paths :
        /\ pc = "loop"
        /\ \E r \in {_mkdir(State, <<p>>)} : Step(I, "mkdir", <<p>>, r)

Clear(I) ==
    /\ pc = "loop"
    /\ \E r \in {_clear(State, <<>>)} : Step(I, "clear", <<>>, r)

Commands(I) ==
    \/ Help(I) \/ Exit(I) \/ Ls(I) \/ Pwd(I) \/ Cd(I) \/ Add(I) \/ Edit(I)
    \/ Remove(I) \/ Done(I) \/ Check(I) \/ Show(I) \/ List(I) \/ Mkdir(I)
    \/ Clear(I)

----------------------------------------------------------------------------
(* Spec: the session over paths.  The paths reach the sandbox root, a      *)
(* folder in relative and in absolute form, the parent of the current      *)
(* directory and a sibling of the root whose name starts with the root's   *)
(* name; the titles are a plain one and one that climbs out of the         *)
(* current directory.                                                      *)

P_w == <<"w">>
P_up == <<".", ".">>
P_sibling == <<".", ".", "/", "n", "o", "t", "e", "s", "2">>
P_root == <<"/">>
P_abs == <<"/", "w">>

T_a == <<"a">>
T_up == <<".", ".", "/", "a">>

SessionInputs ==
    [paths |-> {P_w, P_up, P_sibling, P_root, P_abs},
     titles |-> {T_a, T_up},
     contents |-> {<< <<"m">> >>},
     texts |-> {<< <<"m">> >>},
     flags |-> {<<REPLACE_FLAG>>},
     lines |-> {<< <<"1">> >>},
     maxFiles |-> MaxFiles,
     maxDirs |-> MaxDirs]

Next == Interactive \/ EndOfInput \/ Commands(SessionInputs)

Spec == Init /\ [][Next]_vars

----------------------------------------------------------------------------
(* NoteSpec: the note commands on one title in the sandbox root, over      *)
(* contents with no marker, one marker, both markers and the done marker.  *)

NoteInputs ==
    [paths |-> {},
     titles |-> {T_a},
     contents |-> {<< <<>> >>,
                   << <<"[", "x", "]", "[", " ", "]">> >>,
                   << <<"[">>, <<"]">>, <<>> >>,
                   << DONE_MARKER >>},
     texts |-> {<< <<"m">> >>, << <<"[", " ", "]">> >>, <<>>},
     flags |-> {<<>>, <<REPLACE_FLAG>>},
     lines |-> {<< <<"1">> >>, << <<"2">> >>, << <<"0">> >>,
                << <<"1">>, <<"2">> >>, << <<"2">>, <<"1">> >>,
                << <<"1">>, <<"1">> >>,
                << <<"1">>, <<"z">> >>, << <<"z">> >>},
     maxFiles |-> MaxFiles,
     maxDirs |-> MaxDirs]

NoteNext ==
    \/ Interactive \/ EndOfInput
    \/ Add(NoteInputs) \/ Edit(NoteInputs) \/ Remove(NoteInputs)
    \/ Done(NoteInputs) \/ Check(NoteInputs) \/ Show(NoteInputs)
    \/ List(NoteInputs)

NoteSpec == Init /\ [][NoteNext]_vars

----------------------------------------------------------------------------
(* TreeSpec: the folder and note commands over a small tree below the      *)
(* sandbox root: a folder, a folder nested in it, a folder that carries    *)
(* the name of a note file, and one note title.                            *)

\* most files and most added directories under TreeSpec
MaxTreeFiles == 2
MaxTreeDirs == 3

P_wv == <<"/", "w", "/", "v">>
P_txt == <<"/", "a", ".", "t", "x", "t">>

TreeInputs ==
    [paths |-> {P_abs, P_wv, P_txt},
     titles |-> {T_a},
     contents |-> {<< <<"m">> >>},
     texts |-> {<< <<"m">> >>},
     flags |-> {<<REPLACE_FLAG>>},
     lines |-> {<< <<"1">> >>},
     maxFiles |-> MaxTreeFiles,
     maxDirs |-> MaxTreeDirs]

TreeNext ==
    \/ Interactive \/ EndOfInput
    \/ Ls(TreeInputs) \/ Cd(TreeInputs) \/ Mkdir(TreeInputs)
    \/ Add(TreeInputs) \/ Edit(TreeInputs) \/ Remove(TreeInputs)
    \/ Done(TreeInputs) \/ Check(TreeInputs) \/ Show(TreeInputs)

TreeSpec == Init /\ [][TreeNext]_vars

----------------------------------------------------------------------------
(* LineSpec: the session over whole input lines, each given to             *)
(* run_command as read.  The lines are blank ones, an empty quoted token,  *)
(* commands with and without surrounding space and quotes, first tokens    *)
(* that are a prefix, an extension or another case of a command name,      *)
(* lines whose quote or escape is left open, and commands that fail.       *)

LineInputs ==
    [commandLines |->
        {
         <<>>,
         <<" ">>,
         <<"\t", " ">>,
         <<"'", "'">>,
         <<"l", "s">>,
         <<" ", "l", "s", " ">>,
         <<"l", "'", "s", "'">>,
         <<"l">>,
         <<"l", "s", "x">>,
         <<"D", "O", "N", "E", " ", "a">>,
         <<"p", "w", "d">>,
         <<"c", "d">>,
         <<"c", "d", " ", "w">>,
         <<"c", "d", " ", ".", ".", "/", "\"">>,
         <<"m", "k", "d", "i", "r", " ", "w">>,
         <<"a", "d", "d", " ", "a", " ", "m">>,
         <<"a", "d", "d", " ", "a", " ", "'", "m", " ", "m", "'">>,
         <<"a", "d", "d", " ", "a", " ", "\"", "m">>,
         <<"s", "h", "o", "w", " ", "a">>,
         <<"d", "o", "n", "e", " ", "a">>,
         <<"r", "e", "m", "o", "v", "e", " ", "a">>,
         <<"r", "e", "m", "o", "v", "e", " ", "-", "d", " ", "/", "w">>,
         <<"l", "s", " ", "\\">>,
         <<"c", "h", "e", "c", "k", " ", "a", " ", "z">>,
         <<"l", "i", "s", "t">>,
         <<"h", "e", "l", "p">>,
         <<"c", "l", "e", "a", "r">>,
         <<"c", "l", "e", "a", "r", " ", "x">>,
         <<"l", "s", " ", "w">>,
         <<"e", "d", "i", "t", " ", "a", " ", "m", " ", "-", "-", "r", "e", "p", "l", "a", "c", "e">>,
         <<"e", "x", "i", "t">>},
     maxFiles |-> MaxFiles,
     maxDirs |-> MaxDirs]

\* one turn of the loop of Shell.interactive on a line: an exception that
\* leaves run_command leaves the loop
LineStep(I, line, r) ==
    /\ WithinBounds(I, "run_command", r)
    /\ cwd' = r.cwd
    /\ dirs' = r.dirs
    /\ files' = r.files
    /\ running' = r.running
    /\ session' = session
    /\ race' = race
    /\ gui' = gui
    /\ last' = [cmd |-> "run_command", args |-> <<line>>]
    /\ out' = r.out
    /\ before' = State
    /\ pc' = IF r.raised # "" THEN "crashed"
             ELSE IF r.running THEN "loop" ELSE "ended"

RunLine(I) ==
    \E line \in I.commandLines :
        /\ pc = "loop"
        /\ \E r \in {run_command(State, line)} : LineStep(I, line, r)

LineNext == Interactive \/ EndOfInput \/ RunLine(LineInputs)

LineSpec == Init /\ [][LineNext]_vars

----------------------------------------------------------------------------
(* UsageSpec: the loop of Shell.interactive over lines that give a command *)
(* fewer arguments than its syntax asks for, or more than it allows, and   *)
(* the lines that write a note, make a folder and enter it.                *)

UsageInputs ==
    [commandLines |->
        {
         <<"a", "d", "d", " ", "a", " ", "m">>,
         <<"m", "k", "d", "i", "r", " ", "w">>,
         <<"c", "d", " ", "w">>,
         <<"c", "d">>,
         <<"a", "d", "d", " ", "a">>,
         <<"e", "d", "i", "t", " ", "a">>,
         <<"r", "e", "m", "o", "v", "e">>,
         <<"r", "e", "m", "o", "v", "e", " ", "-", "d">>,
         <<"d", "o", "n", "e">>,
         <<"s", "h", "o", "w">>,
         <<"m", "k", "d", "i", "r">>,
         <<"c", "h", "e", "c", "k", " ", "a">>,
         <<"m", "k", "d", "i", "r", " ", "w", " ", "v">>,
         <<"d", "o", "n", "e", " ", "a", " ", "b">>,
         <<"p", "w", "d", " ", "x">>},
     maxFiles |-> MaxFiles,
     maxDirs |-> MaxDirs]

UsageNext == Interactive \/ EndOfInput \/ RunLine(UsageInputs)

UsageSpec == Init /\ [][UsageNext]_vars

----------------------------------------------------------------------------
(* LoopSpec: the loop of Shell.interactive over exit, with and without an  *)
(* argument and in another case, unknown commands, commands that fail, a   *)
(* line whose quote is left open, and commands that succeed.               *)

LoopInputs ==
    [commandLines |->
        {
         <<>>,
         <<"e", "x", "i", "t">>,
         <<"e", "x", "i", "t", " ", "n", "o", "w">>,
         <<"E", "X", "I", "T">>,
         <<"q", "u", "i", "t">>,
         <<"l", "s">>,
         <<"a", "d", "d", " ", "a", " ", "m">>,
         <<"s", "h", "o", "w", " ", "b">>,
         <<"c", "d", " ", "/", "x">>,
         <<"c", "h", "e", "c", "k", " ", "a", " ", "z">>,
         <<"l", "s", " ", "\"">>,
         <<"m", "k", "d", "i", "r", " ", "w">>,
         <<"c", "d", " ", "w">>,
         <<"r", "e", "m", "o", "v", "e", " ", "-", "d", " ", "/", "w">>,
         <<"d", "o", "n", "e", " ", "a">>},
     maxFiles |-> MaxFiles,
     maxDirs |-> MaxDirs]

LoopNext == Interactive \/ EndOfInput \/ RunLine(LoopInputs)

LoopSpec == Init /\ [][LoopNext]_vars

----------------------------------------------------------------------------
(* NewlineSpec: the note commands on one title over contents whose lines   *)
(* end in a line feed, in a carriage return and a line feed, and in a      *)
(* carriage return alone, with one and with two todo lines.                *)

NewlineInputs ==
    [paths |-> {},
     titles |-> {T_a},
     contents |-> {<< <<"\n", "[", " ", "]">> >>,
                   << <<"\r", "\n", "[", " ", "]">> >>,
                   << <<"\r", "[", "x", "]">> >>,
                   << <<"[", " ", "]", "\n", "[", "x", "]">> >>},
     texts |-> {},
     flags |-> {},
     lines |-> {<< <<"1">> >>, << <<"2">> >>, << <<"3">> >>,
                << <<"1">>, <<"2">> >>, << <<"2">>, <<"2">> >>},
     maxFiles |-> MaxFiles,
     maxDirs |-> MaxDirs]

NewlineNext ==
    \/ Interactive \/ EndOfInput
    \/ Add(NewlineInputs) \/ Check(NewlineInputs) \/ Show(NewlineInputs)

NewlineSpec == Init /\ [][NewlineNext]_vars

----------------------------------------------------------------------------
(* RaceSpec: two sessions on one sandbox root, each running one write      *)
(* command on the same note.  A handler takes no lock, so its file calls   *)
(* are steps of their own: the read, the open for writing, which empties   *)
(* the file, and the close, which writes the buffered text at the start of *)
(* the file.  Before the two begin, the first session may write the note.  *)

\* what both sessions see: each Shell starts in the sandbox root
SharedState == [cwd |-> sandbox_root, dirs |-> dirs, files |-> files, running |-> TRUE]

\* the handler run on what it read goes on to open the note for writing
Writes(cmd, r) ==
    \/ r.out.fmt \in {"Note '{}' created.", "Note '{}' replaced.",
                      "Text added to note '{}'.", "Note '{}' marked as done."}
    \/ /\ cmd = "check" /\ r.out.fmt = "{results}"
       /\ \E k \in 1..Len(r.out.args) :
              r.out.args[k].fmt \in {"Line {} checked", "Line {} unchecked"}

\* a close that replaces whatever the file holds
flush_whole(content, text) == text

\* the close of a file opened with "w": the buffered text is written at
\* offset 0 over what the file holds by then
flush(content, text) ==
    IF Len(text) >= Len(content) THEN text
    ELSE text \o SubSeq(content, Len(text) + 1, Len(content))

RaceInputs ==
    [titles |-> {T_a},
     contents |-> {<< <<"[", " ", "]">> >>, << <<"k">>, <<"k">>, <<"k">> >>,
                   << <<"k">>, <<"k">>, <<"k">>, <<"k">> >>},
     raceCommands |->
        {[cmd |-> "add", args |-> <<T_a, <<"x", "y">>>>],
         [cmd |-> "edit", args |-> <<T_a, <<"m">>>>],
         [cmd |-> "edit", args |-> <<T_a, <<"m">>, REPLACE_FLAG>>],
         [cmd |-> "done", args |-> <<T_a>>],
         [cmd |-> "check", args |-> <<T_a, <<"1">>>>]},
     maxFiles |-> MaxFiles,
     maxDirs |-> MaxDirs]

\* before the race: the first session writes the note
RaceSetup(I) == race.clock = 0 /\ Add(I)

\* session s takes a command and runs its handler up to the open for
\* writing: the test for the note, the read, and what to write and to return
RaceBegin(I, s) ==
    \E c \in I.raceCommands :
        /\ pc = "loop"
        /\ race.sess[s].pc = "idle"
        /\ \E r \in {dispatch(SharedState, c.cmd, c.args)} :
           \E file \in {Lookup(SharedState, NoteFile(SharedState, c.args[1])).path} :
              race' = [race EXCEPT
                          !.clock = @ + 1,
                          !.sess[s] =
                              [pc |-> IF Writes(c.cmd, r) THEN "ready" ELSE "finished",
                               cmd |-> c.cmd, args |-> c.args, file |-> file,
                               text |-> IF Writes(c.cmd, r) THEN r.files[file] ELSE <<>>,
                               out |-> r.out, began |-> race.clock + 1,
                               opened |-> 0, flushed |-> 0]]
        /\ UNCHANGED <<pc, cwd, dirs, files, running, session, gui, last, out, before>>

\* open(filename, "w"): the file is created or emptied
RaceOpen(s) ==
    /\ race.sess[s].pc = "ready"
    /\ files' = [p \in DOMAIN files \cup {race.sess[s].file} |->
                    IF p = race.sess[s].file THEN <<>> ELSE files[p]]
    /\ race' = [race EXCEPT !.clock = @ + 1,
                            !.sess[s].pc = "opened",
                            !.sess[s].opened = race.clock + 1]
    /\ UNCHANGED <<pc, cwd, dirs, running, session, gui, last, out, before>>

\* the end of the with block: the text is written and the handler returns
RaceClose(s) ==
    /\ race.sess[s].pc = "opened"
    /\ files' = [files EXCEPT ![race.sess[s].file] = flush(@, race.sess[s].text)]
    /\ race' = [race EXCEPT !.clock = @ + 1,
                            !.sess[s].pc = "finished",
                            !.sess[s].flushed = race.clock + 1]
    /\ UNCHANGED <<pc, cwd, dirs, running, session, gui, last, out, before>>

RaceNext ==
    \/ Interactive
    \/ RaceSetup(RaceInputs)
    \/ \E s \in Sessions : RaceBegin(RaceInputs, s) \/ RaceOpen(s) \/ RaceClose(s)

RaceSpec == Init /\ [][RaceNext]_vars

----------------------------------------------------------------------------
(* GuiSpec: the command line of the NoteHub window.  execute_command       *)
(* answers clear, exit, add, edit and show itself and hands every other    *)
(* line to Shell.run_command; add and edit open the editor, and the note   *)
(* is written when the editor is left with Enter (finish_editing).         *)

\* str.lstrip()
RECURSIVE LStrip(_)
LStrip(s) == IF s # <<>> /\ Head(s) \in Whitespace THEN LStrip(Tail(s)) ELSE s

\* str.strip()
Strip(s) == LStrip(RStrip(s))

\* what execute_command leaves: the shell's state, the editor's, the text
\* appended to the terminal after the echoed line, and an exception that
\* leaves the slot
GuiReturn(st, g, o) ==
    [out |-> o, cwd |-> st.cwd, dirs |-> st.dirs, files |-> st.files,
     running |-> st.running, raised |-> "", gui |-> g]

\* the end of execute_command, from the call of Shell.run_command on: sh is
\* what the shell returned or raised
after_run_command(g, cmd_parts, sh) ==
    LET reload == ReadFile(sh, NoteFile(sh, g.current_note))
    IN  IF sh.raised # ""
        THEN [GuiReturn(sh, g, Out("", <<>>)) EXCEPT !.raised = sh.raised]
        ELSE IF /\ cmd_parts[1] = CommandText["check"] /\ g.current_note # <<>>
                /\ Len(cmd_parts) >= 2 /\ cmd_parts[2] = g.current_note
                /\ exists(sh, NoteFile(sh, g.current_note))
                /\ reload.err # ""
        THEN [GuiReturn(sh, g, sh.out) EXCEPT !.raised = reload.err]
        ELSE GuiReturn(sh, g, sh.out)

\* a command line that hands every line that is not blank to the shell
execute_command_plain(st, g, line) ==
    IF IsBlank(line) THEN GuiReturn(st, g, Out("", <<>>))
    ELSE after_run_command(g, str_split(line, <<>>, <<>>), run_command(st, line))

\* NoteHub.execute_command
execute_command(st, g, line) ==
    LET cmd_parts == str_split(line, <<>>, <<>>)
        note_title == cmd_parts[2]
        filepath == NoteFile(st, note_title)
        rd == ReadFile(st, filepath)
    IN  IF IsBlank(line) THEN GuiReturn(st, g, Out("", <<>>))
        ELSE IF Strip(line) = CommandText["clear"] THEN GuiReturn(st, g, Out("", <<>>))
        ELSE IF Strip(line) = CommandText["exit"]
        THEN GuiReturn(st, [g EXCEPT !.closed = TRUE], Out("Bye.", <<>>))
        ELSE IF cmd_parts[1] = CommandText["add"]
        THEN IF Len(cmd_parts) > 1
             THEN IF exists(st, filepath)
                  THEN GuiReturn(st, g, Out("Note '{}' already exists. Use 'edit'.",
                                            <<note_title>>))
                  ELSE GuiReturn(st, [g EXCEPT !.current_note = note_title,
                                               !.edit_mode_type = "add",
                                               !.edit_mode = TRUE,
                                               !.opened_in = st.cwd],
                                 Out("Editor activated. Write your note. Enter = Save, Shift+Enter = New line.", <<>>))
             ELSE GuiReturn(st, g, Out("Usage: add <title>", <<>>))
        ELSE IF cmd_parts[1] = CommandText["edit"]
        THEN IF Len(cmd_parts) > 1
             THEN IF exists(st, filepath)
                  THEN IF rd.err # ""
                       THEN [GuiReturn(st, g, Out("", <<>>)) EXCEPT !.raised = rd.err]
                       ELSE GuiReturn(st, [g EXCEPT !.current_note = note_title,
                                                    !.edit_mode_type = "edit",
                                                    !.edit_mode = TRUE,
                                                    !.opened_in = st.cwd],
                                      Out("Editor activated. Edit your note. Enter = Save, Shift+Enter = New line.", <<>>))
                  ELSE GuiReturn(st, g, Out("Note '{}' not found.", <<note_title>>))
             ELSE GuiReturn(st, g, Out("Usage: edit <title>", <<>>))
        ELSE IF cmd_parts[1] = CommandText["show"]
        THEN IF Len(cmd_parts) > 1
             THEN IF exists(st, filepath)
                  THEN IF rd.err # ""
                       THEN [GuiReturn(st, g, Out("", <<>>)) EXCEPT !.raised = rd.err]
                       ELSE GuiReturn(st, [g EXCEPT !.current_note = note_title,
                                                    !.edit_mode = FALSE],
                                      Out("Note '{}' displayed in editor.", <<note_title>>))
                  ELSE GuiReturn(st, g, Out("Note '{}' not found.", <<note_title>>))
             ELSE GuiReturn(st, g, Out("Usage: show <title>", <<>>))
        ELSE after_run_command(g, cmd_parts, run_command(st, line))

\* NoteHub.finish_editing with the text of the editor: [out, files, gui]
finish_editing(st, g, content) ==
    LET filepath == NoteFile(st, g.current_note)
        w == WriteFile(st, filepath, content)
        left == [g EXCEPT !.edit_mode = FALSE, !.edit_mode_type = "None"]
    IN  IF g.current_note = <<>> THEN [out |-> Out("", <<>>), files |-> st.files, gui |-> g]
        ELSE IF g.edit_mode_type \notin {"add", "edit"}
        THEN [out |-> Out("", <<>>), files |-> st.files, gui |-> left]
        ELSE IF w.err # ""
        THEN [out |-> Out("Error: {}", <<OSErrorText(w.err, filepath)>>),
              files |-> st.files, gui |-> g]
        ELSE [out |-> Out(IF g.edit_mode_type = "add" THEN "Note '{}' created."
                          ELSE "Note '{}' saved.", <<g.current_note>>),
              files |-> w.files, gui |-> left]

GuiInputs ==
    [commandLines |->
        {
         <<>>,
         <<"c", "l", "e", "a", "r">>,
         <<"e", "x", "i", "t">>,
         <<"a", "d", "d">>,
         <<"a", "d", "d", " ", "a", " ", "m">>,
         <<"\"", "a", "d", "d", "\"", " ", "a", " ", "m">>,
         <<"e", "d", "i", "t", " ", "a", " ", "m", " ", "-", "-", "r", "e", "p", "l", "a", "c", "e">>,
         <<"s", "h", "o", "w", " ", "a">>,
         <<"d", "o", "n", "e", " ", "a">>,
         <<"r", "e", "m", "o", "v", "e", " ", "a">>,
         <<"c", "h", "e", "c", "k", " ", "a", " ", "1">>,
         <<"m", "k", "d", "i", "r", " ", "w">>,
         <<"c", "d", " ", "w">>,
         <<"r", "e", "m", "o", "v", "e", " ", "-", "d", " ", "/", "w">>,
         <<"'", "'">>},
     editorTexts |-> {<<"[", " ", "]">>},
     maxFiles |-> MaxFiles,
     maxDirs |-> MaxDirs]

\* run_gui: the window is shown and takes events
RunGui ==
    /\ pc = "constructed"
    /\ pc' = "loop"
    /\ UNCHANGED <<cwd, dirs, files, running, session, gui, race, last, out, before>>

\* Return in the command line
ExecuteCommand(I) ==
    \E line \in I.commandLines :
        /\ pc = "loop"
        /\ \E r \in {execute_command(State, gui, line)} :
              /\ WithinBounds(I, "execute_command", r)
              /\ cwd' = r.cwd
              /\ dirs' = r.dirs
              /\ files' = r.files
              /\ running' = r.running
              /\ gui' = r.gui
              /\ last' = [cmd |-> "execute_command", args |-> <<line>>]
              /\ out' = r.out
              /\ before' = State
              /\ pc' = IF r.raised # "" THEN "crashed"
                       ELSE IF r.gui.closed THEN "ended" ELSE "loop"
              /\ UNCHANGED <<session, race>>

\* Enter in the editor while it is in edit mode
FinishEditing(I) ==
    \E content \in I.editorTexts :
        /\ pc = "loop"
        /\ gui.edit_mode
        /\ \E r \in {finish_editing(State, gui, content)} :
              /\ Cardinality(DOMAIN r.files) <= I.maxFiles
              /\ files' = r.files
              /\ gui' = r.gui
              /\ last' = [cmd |-> "finish_editing", args |-> <<content>>]
              /\ out' = r.out
              /\ before' = State
              /\ UNCHANGED <<pc, cwd, dirs, running, session, race>>

GuiNext == RunGui \/ ExecuteCommand(GuiInputs) \/ FinishEditing(GuiInputs)

GuiSpec == Init /\ [][GuiNext]_vars

----------------------------------------------------------------------------
(* VimSpec: the editor of the NoteHub window with its Vim mode.  The       *)
(* editor takes key presses (NoteTextEdit.keyPressEvent), the focus        *)
(* (focusInEvent) and the Vim button; the command line opens notes.  What  *)
(* a key does to the text and the cursor is done by the text widget: the   *)
(* model records the name of the editor operation the key invoked.         *)

\* a key press: the key, the text it produces and the modifiers held
Key(key, text, ctrl, shift) == [key |-> key, text |-> text, ctrl |-> ctrl, shift |-> shift]

\* what a handler of the editor leaves: the text appended to the terminal
\* or the operation invoked on the text, the files and the window's fields
EditorReturn(st, g, o) == [out |-> o, files |-> st.files, gui |-> g]

\* a toggle that leaves the mode of the editor as it is
toggle_vim_mode_keeping(st, g) ==
    LET v == [g.vim EXCEPT !.enabled = ~@]
    IN  EditorReturn(st, [g EXCEPT !.vim = v],
                     IF v.enabled
                     THEN Out("Vim mode enabled. Mode: {}. Type 'help vim' for keybindings.",
                              <<IF v.current_mode = "normal" THEN "NORMAL" ELSE "INSERT">>)
                     ELSE Out("Vim mode disabled.", <<>>))

\* VimMode.toggle, and what NoteHub.toggle_vim_mode appends to the terminal
toggle_vim_mode(st, g) ==
    LET v == [g.vim EXCEPT !.enabled = ~@, !.current_mode = "normal"]
    IN  EditorReturn(st, [g EXCEPT !.vim = v],
                     IF v.enabled
                     THEN Out("Vim mode enabled. Mode: {}. Type 'help vim' for keybindings.",
                              <<IF v.current_mode = "normal" THEN "NORMAL" ELSE "INSERT">>)
                     ELSE Out("Vim mode disabled.", <<>>))

\* VimMode.enter_insert_mode
enter_insert_mode(v) == [v EXCEPT !.current_mode = "insert"]

\* VimMode.enter_normal_mode
enter_normal_mode(v) == [v EXCEPT !.current_mode = "normal", !.last_insert_key = ""]

\* VimMode.handle_insert_mode_key: quick says that less than half a second
\* has passed since the k before
handle_insert_mode_key(v, event, quick) ==
    IF event.text = "k"
    THEN [result |-> "None", vim |-> [v EXCEPT !.last_insert_key = "k"], op |-> ""]
    ELSE IF event.text = "j" /\ v.last_insert_key = "k" /\ quick
    THEN [result |-> "normal", vim |-> v, op |-> "deletePreviousChar"]
    ELSE [result |-> "None", vim |-> [v EXCEPT !.last_insert_key = ""], op |-> ""]

\* the keys of normal mode that invoke one operation and no more
MoveKeys ==
    [h |-> "_move_left", j |-> "_move_down", k |-> "_move_up", l |-> "_move_right",
     w |-> "_move_next_word", b |-> "_move_previous_word", e |-> "_move_end_of_word",
     G |-> "_move_to_bottom", x |-> "_delete_char", X |-> "_delete_char_before",
     D |-> "_delete_to_end_of_line", p |-> "_paste_after", P |-> "_paste_before",
     u |-> "_undo", v |-> "pass"]
    @@ ("0" :> "_move_start_of_line") @@ ("^" :> "_move_first_non_blank")
    @@ ("$" :> "_move_end_of_line") @@ ("/" :> "pass")

\* the keys of normal mode that end in enter_insert_mode
InsertKeys ==
    [i |-> "_insert_before_cursor", a |-> "_insert_after_cursor",
     I |-> "_insert_at_line_start", A |-> "_insert_at_line_end",
     o |-> "_insert_line_below", O |-> "_insert_line_above",
     C |-> "_change_to_end_of_line"]

\* the keys held with Ctrl
ControlKeys == [Key_U |-> "_page_up", Key_D |-> "_page_down", Key_R |-> "_redo"]

\* the commands of two equal keys other than gg
TwoKeyOps == [d |-> "_delete_line", y |-> "_yank_line", c |-> "_change_line"]

\* the end of handle_normal_mode_key for a key that was handled: the
\* command buffer is cleared unless it holds the first key of a command
KeyHandled(v, op) ==
    [result |-> "True",
     vim |-> [v EXCEPT !.command_buffer = IF @ \in {"d", "y", "c", "g"} THEN @ ELSE ""],
     op |-> op]

\* VimMode.handle_normal_mode_key: [result, vim, op]
handle_normal_mode_key(v, event) ==
    IF event.key \in {"Key_Return", "Key_Enter"}
    THEN [result |-> "save", vim |-> v, op |-> ""]
    ELSE IF event.text = "g"
    THEN IF v.command_buffer = "g"
         THEN KeyHandled([v EXCEPT !.command_buffer = ""], "_move_to_top")
         ELSE [result |-> "True", vim |-> [v EXCEPT !.command_buffer = "g"], op |-> ""]
    ELSE IF event.text \in DOMAIN TwoKeyOps
    THEN IF v.command_buffer = event.text
         THEN KeyHandled([v EXCEPT !.command_buffer = "",
                                   !.current_mode = IF event.text = "c" THEN "insert" ELSE @],
                         TwoKeyOps[event.text])
         ELSE IF v.command_buffer = ""
         THEN [result |-> "True", vim |-> [v EXCEPT !.command_buffer = event.text], op |-> ""]
         ELSE KeyHandled(v, "")
    ELSE IF event.text \in DOMAIN InsertKeys
    THEN KeyHandled(enter_insert_mode(v), InsertKeys[event.text])
    ELSE IF event.text \in DOMAIN MoveKeys
    THEN KeyHandled(v, MoveKeys[event.text])
    ELSE IF event.ctrl /\ event.key \in DOMAIN ControlKeys
    THEN KeyHandled(v, ControlKeys[event.key])
    ELSE [result |-> "False", vim |-> [v EXCEPT !.command_buffer = ""], op |-> ""]

\* QTextEdit.keyPressEvent: the key is typed into the text
TypedIntoText(st, g) == EditorReturn(st, g, Out("QTextEdit.keyPressEvent", <<>>))

\* NoteTextEdit.keyPressEvent with the text of the editor: [out, files, gui]
keyPressEvent(st, g, event, content, quick) ==
    LET n == handle_normal_mode_key(g.vim, event)
        i == handle_insert_mode_key(g.vim, event, quick)
    IN  IF event.key = "Key_M" /\ event.ctrl THEN toggle_vim_mode(st, g)
        ELSE IF g.vim.enabled /\ g.vim.current_mode = "normal"
        THEN IF n.result = "save" /\ g.edit_mode
             THEN finish_editing(st, [g EXCEPT !.vim = n.vim], content)
             ELSE EditorReturn(st, [g EXCEPT !.vim = n.vim], Out(n.op, <<>>))
        ELSE IF g.vim.enabled /\ g.vim.current_mode = "insert"
        THEN IF event.key = "Key_Escape"
             THEN EditorReturn(st, [g EXCEPT !.vim = enter_normal_mode(g.vim)], Out("", <<>>))
             ELSE IF i.result = "normal"
             THEN EditorReturn(st, [g EXCEPT !.vim = enter_normal_mode(i.vim)], Out(i.op, <<>>))
             ELSE TypedIntoText(st, [g EXCEPT !.vim = i.vim])
        ELSE IF g.edit_mode /\ event.key \in {"Key_Return", "Key_Enter"} /\ ~event.shift
        THEN finish_editing(st, g, content)
        ELSE TypedIntoText(st, g)

\* NoteTextEdit.focusInEvent
focusInEvent(st, g, content) ==
    IF ~g.edit_mode /\ (g.current_note # <<>> \/ Strip(content) # <<>>)
    THEN EditorReturn(st, [g EXCEPT !.edit_mode = TRUE], Out("", <<>>))
    ELSE EditorReturn(st, g, Out("", <<>>))

VimInputs ==
    [commandLines |-> {<<"a", "d", "d", " ", "a">>, <<"s", "h", "o", "w", " ", "a">>},
     editorTexts |-> {<<"m">>},
     keys |-> {Key("Key_Return", "\r", FALSE, FALSE),
               Key("Key_Return", "\r", FALSE, TRUE),
               Key("Key_Escape", "<ESC>", FALSE, FALSE),
               Key("Key_M", "\r", TRUE, FALSE),
               Key("Key_D", "<EOT>", TRUE, FALSE),
               Key("Key_D", "d", FALSE, FALSE),
               Key("Key_Y", "y", FALSE, FALSE),
               Key("Key_C", "c", FALSE, FALSE),
               Key("Key_G", "g", FALSE, FALSE),
               Key("Key_J", "j", FALSE, FALSE),
               Key("Key_K", "k", FALSE, FALSE),
               Key("Key_I", "i", FALSE, FALSE),
               Key("Key_0", "0", FALSE, FALSE),
               Key("Key_Z", "z", FALSE, FALSE)},
     maxFiles |-> MaxFiles,
     maxDirs |-> MaxDirs]

\* an event of the editor has been handled
EditorStep(I, event, args, r) ==
    /\ Cardinality(DOMAIN r.files) <= I.maxFiles
    /\ files' = r.files
    /\ gui' = r.gui
    /\ last' = [cmd |-> event, args |-> args]
    /\ out' = r.out
    /\ before' = State
    /\ UNCHANGED <<pc, cwd, dirs, running, session, race>>

\* a key is pressed in the editor
KeyPress(I) ==
    \E event \in I.keys, content \in I.editorTexts, quick \in BOOLEAN :
        /\ pc = "loop"
        /\ \E r \in {keyPressEvent(State, gui, event, content, quick)} :
              EditorStep(I, "keyPressEvent", <<event, content>>, r)

\* the editor gets the focus
FocusIn(I) ==
    \E content \in I.editorTexts \cup {<<>>} :
        /\ pc = "loop"
        /\ \E r \in {focusInEvent(State, gui, content)} :
              EditorStep(I, "focusInEvent", <<content>>, r)

\* a click on the Vim button
ToggleVimMode(I) ==
    /\ pc = "loop"
    /\ \E r \in {toggle_vim_mode(State, gui)} : EditorStep(I, "toggle_vim_mode", <<>>, r)

VimNext ==
    \/ RunGui \/ ExecuteCommand(VimInputs)
    \/ KeyPress(VimInputs) \/ FocusIn(VimInputs) \/ ToggleVimMode(VimInputs)

VimSpec == Init /\ [][VimNext]_vars

----------------------------------------------------------------------------
(* The claims about the sandbox, checked under Spec.                       *)

\* the path argument of the last command, <<>> when it took none
PathArgument ==
    IF last.cmd \in {"ls", "cd", "mkdir"} /\ last.args # <<>> THEN <<last.args[1]>>
    ELSE IF last.cmd = "remove" /\ Len(last.args) >= 2 /\ last.args[1] \in FolderFlags
    THEN <<last.args[2]>>
    ELSE <<>>

\* C1: after any sequence of commands the current directory is the sandbox
\* root or a directory below it, never a sibling whose name starts with the
\* root's name nor any other path outside the root.
C1_CwdInsideSandbox == Within(cwd, sandbox_root)

\* C2: a path command (ls, cd, mkdir, remove -d) whose argument normalizes
\* to a target outside the sandbox root answers with the violation message
\* and leaves the filesystem and the current directory as they were.
C2_EscapeRejected ==
    \A k \in 1..Len(PathArgument) :
        (/\ ~(last.cmd = "cd" /\ PathArgument[k] = TILDE)
         /\ ~Within(_resolve_path(before, PathArgument[k]).target, sandbox_root))
        => /\ OutIs(out, SandboxViolation.fmt, SandboxViolation.args)
           /\ State = before

\* C3: every file the note commands read, write or delete lies inside the
\* sandbox root, for every title: the files on disk, all written by note
\* commands, and the file a note command would open for each title.
C3_NoteFilesInsideSandbox ==
    /\ \A f \in DOMAIN files : Within(f, sandbox_root)
    /\ \A t \in SessionInputs.titles :
           exists(State, NoteFile(State, t))
           => Within(Lookup(State, NoteFile(State, t)).path, sandbox_root)

\* C4: no sequence of commands deletes the sandbox root: after every command
\* the root directory still exists.
C4_SandboxRootExists == sandbox_root \in dirs

\* C7: add T C immediately followed by show T returns the header for T and
\* then exactly C, the content tokens joined with single spaces, for a valid
\* title in any current directory.
C7_AddShowRoundTrip ==
    (last.cmd = "add" /\ Len(last.args) >= 2 /\ last.args[1] = T_a)
    => OutIs(_show(State, <<last.args[1]>>).out, "=== {} ===\n{}",
             <<last.args[1], JoinSpaces(Tail(last.args))>>)

----------------------------------------------------------------------------
(* The claims about note content, checked under NoteSpec.                  *)

\* the title of the last command and the file it names, as the command
\* found them
LastTitle == last.args[1]
LastFile == Lookup(before, NoteFile(before, LastTitle)).path

\* the last command named a note that existed when it ran
NoteExisted ==
    /\ last.args # <<>>
    /\ exists(before, NoteFile(before, LastTitle))
    /\ LastFile \in DOMAIN before.files

\* line n of the text is no todo line, or there is no line n
NoTodoLine(text, n) ==
    \/ n < 1
    \/ n > Len(ReadLines(text))
    \/ (~Contains(ReadLines(text)[n], UNCHECKED) /\ ~Contains(ReadLines(text)[n], CHECKED))

\* C5: check T N applied twice in succession returns the whole note to its
\* original content; when N is out of range or line N holds no marker both
\* calls return the same message and the note is unchanged.
C5_CheckTwiceRestores ==
    (last.cmd = "check" /\ Len(last.args) = 2 /\ IsInt(last.args[2]) /\ NoteExisted)
    => \E second \in {_check(State, last.args)} :
          /\ second.files = before.files
          /\ NoTodoLine(before.files[LastFile], IntOf(last.args[2]))
             => (out = second.out /\ files = before.files)

\* C6, as claimed: for an existing note two consecutive done T return
\* "marked as done" then "already done", the second leaves the content
\* unchanged, and the content then holds exactly one [DONE].
C6_DoneTwiceOriginal ==
    (last.cmd = "done" /\ NoteExisted)
    => \E second \in {_done(State, last.args)} :
          /\ OutIs(out, "Note '{}' marked as done.", <<LastTitle>>)
          /\ OutIs(second.out, "Note '{}' is already done.", <<LastTitle>>)
          /\ second.files = files
          /\ Count(files[LastFile], DONE_MARKER) = 1

\* C6, amended: the same for an existing note whose content does not yet
\* contain [DONE].
C6_DoneTwice ==
    (last.cmd = "done" /\ NoteExisted /\ ~Contains(before.files[LastFile], DONE_MARKER))
    => \E second \in {_done(State, last.args)} :
          /\ OutIs(out, "Note '{}' marked as done.", <<LastTitle>>)
          /\ OutIs(second.out, "Note '{}' is already done.", <<LastTitle>>)
          /\ second.files = files
          /\ Count(files[LastFile], DONE_MARKER) = 1

\* a done that marked a note with text in it
C6_DoneTwiceWitness ==
    /\ last.cmd = "done" /\ NoteExisted
    /\ ~Contains(before.files[LastFile], DONE_MARKER)
    /\ before.files[LastFile] # <<>>
    /\ OutIs(out, "Note '{}' marked as done.", <<LastTitle>>)
    /\ OutIs(_done(State, last.args).out, "Note '{}' is already done.", <<LastTitle>>)

\* C8: add T C on a note that already exists succeeds and replaces its
\* content with exactly C, whatever it was; nothing else changes.
C8_AddOverwrites ==
    (last.cmd = "add" /\ Len(last.args) >= 2 /\ NoteExisted)
    => /\ OutIs(out, "Note '{}' created.", <<LastTitle>>)
       /\ files = [before.files EXCEPT ![LastFile] = JoinSpaces(Tail(last.args))]
       /\ dirs = before.dirs
       /\ cwd = before.cwd

\* an add over a note that held other text
C8_AddOverwritesWitness ==
    /\ last.cmd = "add" /\ Len(last.args) >= 2 /\ NoteExisted
    /\ before.files[LastFile] # <<>>
    /\ files[LastFile] # <<>>
    /\ files[LastFile] # before.files[LastFile]
    /\ OutIs(out, "Note '{}' created.", <<LastTitle>>)

\* the text tokens of the last edit and whether it carried --replace
EditReplaces == \E k \in 1..Len(last.args) : last.args[k] = REPLACE_FLAG
EditText == JoinSpaces(SelectSeq(Tail(last.args), LAMBDA a : a # REPLACE_FLAG))

C10_NonIntegerAborts ==
    (last.cmd = "check" /\ Len(last.args) >= 2
     /\ \E k \in 2..Len(last.args) : ~IsInt(last.args[k]))
    => /\ OutIs(out, "All line numbers must be integers.", <<>>)
       /\ State = before

\* a check of a todo line followed by a token that is no integer
C10_NonIntegerAbortsWitness ==
    /\ last.cmd = "check" /\ Len(last.args) = 3 /\ NoteExisted
    /\ IsInt(last.args[2]) /\ ~IsInt(last.args[3])
    /\ ~NoTodoLine(before.files[LastFile], IntOf(last.args[2]))
    /\ OutIs(out, "All line numbers must be integers.", <<>>)

\* where the first marker of a line starts, whichever marker it is; 0 when
\* the line has none
FirstMarker(line) ==
    LET u == Find(line, UNCHECKED)
        c == Find(line, CHECKED)
    IN  IF u = 0 THEN c ELSE IF c = 0 THEN u ELSE IF u < c THEN u ELSE c

\* the line with the marker that starts at i toggled
ToggledAt(line, i) ==
    [line EXCEPT ![i + 1] = IF @ = " " THEN "x" ELSE " "]

\* C11: a single check of a todo line toggles the first marker occurrence of
\* that line, whichever of [ ] and [x] stands earliest, and changes no other
\* character of the line or of the note.
C11_FirstMarkerToggles ==
    (/\ last.cmd = "check" /\ Len(last.args) = 2 /\ IsInt(last.args[2])
     /\ NoteExisted
     /\ ~NoTodoLine(before.files[LastFile], IntOf(last.args[2])))
    => ReadLines(files[LastFile]) =
          [ReadLines(before.files[LastFile]) EXCEPT
              ![IntOf(last.args[2])] = ToggledAt(@, FirstMarker(@))]

\* the line numbers the last check was given, once converted
LastLineNumbers == [k \in 1..(Len(last.args) - 1) |-> IntOf(last.args[k + 1])]

\* C12: check T n1 ... nk with integers on an existing note returns exactly
\* k per-line results, the i-th about ni, in the order given and with
\* duplicates kept; when no requested line is an in-range todo line the
\* content of the note is unchanged.
C12_CheckResultsInOrder ==
    (/\ last.cmd = "check" /\ Len(last.args) >= 2
     /\ \A k \in 2..Len(last.args) : IsInt(last.args[k])
     /\ NoteExisted)
    => /\ out.fmt = "{results}"
       /\ Len(out.args) = Len(LastLineNumbers)
       /\ \A i \in 1..Len(LastLineNumbers) : out.args[i].args[1] = LastLineNumbers[i]
       /\ (\A i \in 1..Len(LastLineNumbers) :
              NoTodoLine(before.files[LastFile], LastLineNumbers[i]))
          => files = before.files

\* a check of a line out of range and then of a todo line before it
C12_CheckResultsInOrderWitness ==
    /\ last.cmd = "check" /\ Len(last.args) = 3 /\ NoteExisted
    /\ IsInt(last.args[2]) /\ IsInt(last.args[3])
    /\ IntOf(last.args[2]) > IntOf(last.args[3])
    /\ OutIs(out, "{results}",
             <<Out("Line {} out of range (1-{})", <<2, 1>>),
               Out("Line {} checked", <<1>>)>>)
    /\ files # before.files

----------------------------------------------------------------------------
(* The claims about missing notes and folders, checked under TreeSpec.     *)

\* the last command was a note command given the arguments it requires
NoteCommandWellFormed ==
    \/ last.cmd = "remove" /\ Len(last.args) >= 1 /\ last.args[1] \notin FolderFlags
    \/ last.cmd = "edit" /\ Len(last.args) >= 2
    \/ last.cmd \in {"done", "show"} /\ Len(last.args) >= 1
    \/ /\ last.cmd = "check" /\ Len(last.args) >= 2
       /\ \A k \in 2..Len(last.args) : IsInt(last.args[k])

\* the not-found message of a note command
NoteNotFound(cmd, title) ==
    IF cmd = "edit" THEN Out("Note '{}' not found. Use 'add' to create.", <<title>>)
    ELSE Out("Note '{}' not found.", <<title>>)

\* the last command was remove with a folder flag and a folder argument
FolderRemove ==
    last.cmd = "remove" /\ Len(last.args) >= 2 /\ last.args[1] \in FolderFlags

\* the directory the folder argument of the last command names
FolderTarget == _resolve_path(before, last.args[2]).target

\* C13: remove, edit, done, check and show on a note that does not exist in
\* the current directory return the command's not-found message and change
\* nothing; remove -d on a path inside the sandbox that is a missing folder
\* or a file returns the folder-worded not-found message and changes nothing.
C13_MissingReported ==
    /\ (/\ NoteCommandWellFormed
        /\ normpath(PathJoin(before.cwd, LastTitle \o TXT)) \notin DOMAIN before.files)
       => /\ OutIs(out, NoteNotFound(last.cmd, LastTitle).fmt, <<LastTitle>>)
          /\ State = before
    /\ (/\ FolderRemove
        /\ Within(FolderTarget, sandbox_root)
        /\ FolderTarget \notin before.dirs)
       => /\ OutIs(out, "Folder '{}' not found.", <<last.args[2]>>)
          /\ State = before

\* what ls prints for a directory that holds the given paths
Listing(st, paths) ==
    LET names == Sorted({BaseName(p) : p \in paths})
        shown == [k \in 1..Len(names) |->
                     IF \E p \in paths : p \in st.dirs /\ BaseName(p) = names[k]
                     THEN names[k] \o SEP ELSE names[k]]
    IN  IF paths = {} THEN Out("", <<>>) ELSE Out("{}", <<Join(shown, <<"\n">>)>>)

\* the last command was remove -d on an existing folder below the sandbox
\* root
FolderRemoved ==
    /\ FolderRemove
    /\ Within(FolderTarget, sandbox_root) /\ FolderTarget # sandbox_root
    /\ FolderTarget \in before.dirs

\* C14: remove -d F on an existing folder F below the sandbox root deletes F
\* with every note and folder below it and nothing else; ls of F's parent
\* then lists every sibling of F and no longer F.
C14_FolderRemoved ==
    FolderRemoved
    => /\ dirs = {d \in before.dirs : ~Within(d, FolderTarget)}
       /\ DOMAIN files = {f \in DOMAIN before.files : ~Within(f, FolderTarget)}
       /\ \A f \in DOMAIN files : files[f] = before.files[f]
       /\ cwd = before.cwd
       /\ _ls(State, <<_get_relative_path(Parent(FolderTarget))>>).out =
             Listing(before,
                     {p \in before.dirs \cup DOMAIN before.files :
                         Parent(p) = Parent(FolderTarget) /\ p # FolderTarget})

\* a folder with a note and a nested folder in it is removed while a note
\* stands beside it
C14_FolderRemovedWitness ==
    /\ FolderRemoved
    /\ \E d \in before.dirs : Parent(d) = FolderTarget
    /\ \E f \in DOMAIN before.files : Parent(f) = FolderTarget
    /\ \E f \in DOMAIN before.files :
          Parent(f) = Parent(FolderTarget) /\ f \in DOMAIN files
    /\ FolderTarget \notin dirs
    /\ OutIs(out, "Folder '{}' and its content deleted.", <<last.args[2]>>)

----------------------------------------------------------------------------
(* The claims about cd, pwd and ls, checked under Spec and TreeSpec.       *)

\* the last command was a cd that succeeded
CdSucceeded == last.cmd = "cd" /\ OutIs(out, "", <<>>)

\* the path of a directory below the sandbox root as the root's user sees
\* it: a separator, then the components below the root
BelowRoot(path) ==
    SEP \o Join(SubSeq(Components(path), Len(Components(sandbox_root)) + 1,
                       Len(Components(path))), SEP)

\* C15: after cd with no argument or with ~ the current directory is the
\* sandbox root and pwd returns /; after a successful cd D the current
\* directory is the existing directory D names and pwd returns its path
\* relative to the root with a leading /.
C15_CdThenPwd ==
    CdSucceeded
    => \E shown \in {_pwd(State, <<>>).out} :
          /\ shown.fmt = "{}"
          /\ IF last.args = <<>> \/ last.args[1] = TILDE
             THEN cwd = sandbox_root /\ shown.args[1] = SEP
             ELSE /\ cwd = _resolve_path(before, last.args[1]).target
                  /\ cwd \in dirs
                  /\ StartsWith(shown.args[1], SEP)
                  /\ normpath(PathJoin(sandbox_root, LStripSlash(shown.args[1]))) = cwd
                  /\ Within(cwd, sandbox_root) => shown.args[1] = BelowRoot(cwd)

\* a cd into a folder below the root, from the root
C15_CdThenPwdWitness ==
    /\ CdSucceeded
    /\ last.args \in {<<P_w>>, <<P_abs>>}
    /\ before.cwd = sandbox_root
    /\ cwd = sandbox_root \o SEP \o P_w
    /\ _pwd(State, <<>>).out = Out("{}", <<SEP \o P_w>>)

\* the last command was cd with a path argument
CdWithPath == last.cmd = "cd" /\ last.args # <<>> /\ last.args[1] # TILDE

\* C16: a cd whose argument escapes the sandbox returns the violation
\* message, a cd whose argument names no directory returns the "is not a
\* directory" message, and both leave the current directory where it was.
C16_FailingCdStays ==
    CdWithPath
    => \E target \in {_resolve_path(before, last.args[1]).target} :
          /\ ~Within(target, sandbox_root)
             => /\ OutIs(out, SandboxViolation.fmt, SandboxViolation.args)
                /\ cwd = before.cwd
          /\ (Within(target, sandbox_root) /\ target \notin before.dirs)
             => /\ OutIs(out, "'{}' is not a directory", <<last.args[1]>>)
                /\ cwd = before.cwd

\* the directory the last ls had to list: the current directory, or the
\* target of its path argument
LsTarget ==
    IF last.args = <<>> THEN before.cwd ELSE _resolve_path(before, last.args[1]).target

\* C17: when the directory ls must list, inside the sandbox, is no existing
\* directory, with or without a path argument, the output is the "is not a
\* directory" message and never the text of an internal fault.
C17_LsReportsNotADirectory ==
    (/\ last.cmd = "ls"
     /\ Within(LsTarget, sandbox_root)
     /\ LsTarget \notin before.dirs)
    => out.fmt = "'{}' is not a directory"

----------------------------------------------------------------------------
(* The claims about run_command, checked under LineSpec.                   *)

\* the line the last run_command was given and its tokens
LastLine == last.args[1]
LastParts == split_line(LastLine).parts

\* the texts a caught exception of a handler is turned into
FailureTexts ==
    {SandboxViolation.fmt,
     "list index out of range",
     "All line numbers must be integers.",
     "[Errno 2] No such file or directory: '{}'",
     "[Errno 20] Not a directory: '{}'",
     "[Errno 21] Is a directory: '{}'",
     "[Errno 17] File exists: '{}'"}

\* C18: run_command returns a string and never raises, whatever the line
\* and the state; after a handler failure, returned as its message, the
\* current directory is where it was and the session executes the next
\* command as before.
C18_RunNeverRaises ==
    /\ pc # "crashed"
    /\ last.cmd = "run_command"
       => /\ run_command(before, LastLine).raised = ""
          /\ out.fmt \in FailureTexts
             => /\ cwd = before.cwd
                /\ running = before.running
                /\ run_command(State, <<"p", "w", "d">>) =
                      Returned(Ret(State, Out("{}", <<_get_relative_path(before.cwd)>>)))

\* a line with an open quote, split by the fallback, whose handler fails
C18_RunNeverRaisesWitness ==
    /\ last.cmd = "run_command"
    /\ ~shlex_split(LastLine).ok
    /\ LastParts[1] = CommandText["cd"]
    /\ OutIs(out, SandboxViolation.fmt, SandboxViolation.args)
    /\ running

\* C19: a first token that is not exactly a registered command name, such
\* as another case of a name, a prefix or an extension of one, returns
\* Command not found with the token and changes nothing.
C19_UnknownCommand ==
    (/\ last.cmd = "run_command"
     /\ ~IsBlank(LastLine)
     /\ \A c \in commands : CommandText[c] # LastParts[1])
    => /\ OutIs(out, "Command not found: {}", <<LastParts[1]>>)
       /\ State = before
       /\ pc # "crashed"

\* the name of a command in capitals, given while its note is there
C19_UnknownCommandWitness ==
    /\ last.cmd = "run_command"
    /\ ~IsBlank(LastLine)
    /\ Lower(LastParts[1]) = CommandText["done"]
    /\ LastParts[1] # CommandText["done"]
    /\ DOMAIN before.files # {}
    /\ OutIs(out, "Command not found: {}", <<LastParts[1]>>)
    /\ files = before.files

\* C20: an empty line or a line of white space returns the empty string and
\* leaves the filesystem, the current directory and the running flag as
\* they were.
C20_BlankLine ==
    (last.cmd = "run_command" /\ \A k \in 1..Len(LastLine) : LastLine[k] \in {" ", "\t"})
    => /\ OutIs(out, "", <<>>)
       /\ State = before
       /\ pc # "crashed"

\* a line of white space given while a note and a folder are there
C20_BlankLineWitness ==
    /\ last.cmd = "run_command"
    /\ LastLine # <<>>
    /\ \A k \in 1..Len(LastLine) : LastLine[k] \in {" ", "\t"}
    /\ DOMAIN files # {}
    /\ dirs # InitDirs
    /\ OutIs(out, "", <<>>)
    /\ running

\* the last line was one whose quoting shlex rejects
MalformedQuoting ==
    last.cmd = "run_command" /\ ~IsBlank(LastLine) /\ ~shlex_split(LastLine).ok

\* the pieces of the last line between its white space
NaiveParts == str_split(LastLine, <<>>, <<>>)

\* C21: a line with malformed quoting is not rejected: it is split on white
\* space, its first token selects the command and the other tokens are the
\* arguments the command is executed with.
C21_MalformedQuotingFallsBack ==
    MalformedQuoting
    => \E run \in {IF \E c \in commands : CommandText[c] = NaiveParts[1]
                   THEN dispatch(before,
                                 CHOOSE c \in commands : CommandText[c] = NaiveParts[1],
                                 Tail(NaiveParts))
                   ELSE Ret(before, Out("Command not found: {}", <<NaiveParts[1]>>))} :
          /\ out = run.out
          /\ State = StateOf(run)
          /\ pc # "crashed"

\* an add whose content opens a quote and never closes it
C21_MalformedQuotingFallsBackWitness ==
    /\ MalformedQuoting
    /\ NaiveParts[1] = CommandText["add"]
    /\ Len(NaiveParts) = 3
    /\ OutIs(out, "Note '{}' created.", <<NaiveParts[2]>>)
    /\ \E f \in DOMAIN files : files[f] = NaiveParts[3] /\ Head(files[f]) = "\""

----------------------------------------------------------------------------
(* The frame of the session, checked under LineSpec.                       *)

\* the last line read did not run cd: it was blank, or its first token is
\* another word
NotCd ==
    /\ last.cmd = "run_command"
    /\ IsBlank(LastLine) \/ LastParts = <<>> \/ LastParts[1] # CommandText["cd"]

\* C22: every command other than cd leaves the current directory as it was,
\* and no command changes sandbox_root, the user and host, or the registered
\* commands.
C22_OnlyCdMovesSession ==
    /\ session = InitSession
    /\ NotCd => cwd = before.cwd

\* C22 witness: below the root, remove -d deleted the folder the session
\* stands in, and the session is still where it was.
C22_OnlyCdMovesSessionWitness ==
    /\ NotCd /\ ~IsBlank(LastLine) /\ LastParts # <<>>
    /\ LastParts[1] = CommandText["remove"]
    /\ before.cwd # sandbox_root /\ before.cwd \in before.dirs /\ before.cwd \notin dirs
    /\ cwd = before.cwd /\ session = InitSession

----------------------------------------------------------------------------
(* mkdir, checked under Spec.                                              *)

\* the directory the last mkdir was asked to make
MkdirTarget == _resolve_path(before, last.args[1]).target

\* the last mkdir left the session and the filesystem as they were
MkdirChangedNothing ==
    cwd = before.cwd /\ dirs = before.dirs /\ files = before.files

\* C23: mkdir P makes P and its missing intermediate directories, all of
\* them inside the sandbox, and nothing else; a P that is a directory already
\* is answered the same way and nothing changes; a P outside the sandbox is
\* refused and nothing changes.
C23_MkdirCreates ==
    (last.cmd = "mkdir" /\ last.args # <<>>)
    => \/ /\ ~Within(MkdirTarget, sandbox_root)
          /\ OutIs(out, SandboxViolation.fmt, SandboxViolation.args)
          /\ MkdirChangedNothing
       \/ /\ Within(MkdirTarget, sandbox_root)
          /\ OutIs(out, "Directory '{}' created.", <<last.args[1]>>)
          /\ dirs = before.dirs \cup Prefixes(MkdirTarget)
          /\ \A d \in dirs \ before.dirs : Within(d, sandbox_root)
          /\ cwd = before.cwd /\ files = before.files
          /\ MkdirTarget \in before.dirs => MkdirChangedNothing

----------------------------------------------------------------------------
(* list, checked under Spec.                                               *)

\* the titles of the notes that lie directly in the current directory of st
NotesIn(st) ==
    {SubSeq(BaseName(f), 1, Len(BaseName(f)) - 4) :
        f \in {g \in DOMAIN st.files :
                  Parent(g) = st.cwd /\ EndsWith(BaseName(g), TXT)}}

\* o is the listing of the titles, one " - T" line each, in ascending order
ListsExactly(o, titles) ==
    /\ o.fmt = "Notes in this directory:\n{}"
    /\ \E lines \in {Split(o.args[1], "\n")} :
          /\ Len(lines) = Cardinality(titles)
          /\ {lines[k] : k \in 1..Len(lines)} = {<<" ", "-", " ">> \o t : t \in titles}
          /\ \A j, k \in 1..Len(lines) : j < k => StrLess(lines[j], lines[k])

\* C24: list returns exactly the titles of the notes that lie directly in
\* the current directory at that moment, each once and in sorted order, and
\* the no-notes message when there are none.
C24_ListExact ==
    last.cmd = "list"
    => IF NotesIn(before) = {}
       THEN OutIs(out, "No notes in this directory.", <<>>)
       ELSE ListsExactly(out, NotesIn(before))

----------------------------------------------------------------------------
(* done, checked under NoteSpec.                                           *)

\* new is old up to its last character that is no whitespace, then a
\* newline, the marker and a newline
TrimmedAndMarked(old, new) ==
    \E k \in 0..Len(old) :
        /\ \A j \in (k + 1)..Len(old) : old[j] \in Whitespace
        /\ k > 0 => old[k] \notin Whitespace
        /\ new = SubSeq(old, 1, k) \o <<"\n">> \o DONE_MARKER \o <<"\n">>

----------------------------------------------------------------------------
(* Argument counts, checked under UsageSpec.                               *)

\* the registered command the last line named, and the arguments it got
LastCommand == CHOOSE c \in commands : CommandText[c] = LastParts[1]
LastArgs == Tail(LastParts)

\* the last line named a registered command
RanCommand ==
    /\ last.cmd = "run_command" /\ ~IsBlank(LastLine) /\ LastParts # <<>>
    /\ \E c \in commands : CommandText[c] = LastParts[1]

\* the usage messages
UsageText ==
    [c \in {"add", "edit", "remove", "done", "check", "show", "mkdir"} |->
        CASE c = "add" -> "Usage: add <title> <content>"
          [] c = "edit" -> "Usage: edit <title> <text> [--replace]"
          [] c = "remove" -> "Usage: remove <title> or remove -d <folder>"
          [] c = "done" -> "Usage: done <title>"
          [] c = "check" -> "Usage: check <title> <line_number> [line_number2 ...]"
          [] c = "show" -> "Usage: show <title>"
          [] c = "mkdir" -> "Usage: mkdir <name>"]

FolderUsageText == "Usage: remove -d <folder>"

\* the fewest arguments the syntax of a command asks for
MinArgs ==
    [c \in commands |->
        IF c \in {"add", "edit", "check"} THEN 2
        ELSE IF c \in {"remove", "done", "show", "mkdir"} THEN 1
        ELSE 0]

\* the commands whose syntax takes no more than a fixed count, and the count
MaxArgs ==
    [c \in commands \ {"add", "edit", "check"} |->
        IF c \in {"help", "ls", "cd", "remove", "done", "show", "mkdir"} THEN 1 ELSE 0]

\* remove with a folder flag: the flag and one folder
FolderForm == LastCommand = "remove" /\ LastArgs # <<>> /\ LastArgs[1] \in FolderFlags

TooFewArguments ==
    /\ RanCommand
    /\ \/ Len(LastArgs) < MinArgs[LastCommand]
       \/ FolderForm /\ Len(LastArgs) < 2

TooManyArguments ==
    /\ RanCommand
    /\ LastCommand \in DOMAIN MaxArgs
    /\ Len(LastArgs) > (IF FolderForm THEN 2 ELSE MaxArgs[LastCommand])

\* the last line was answered with a usage message and changed nothing
UsageAnswered ==
    /\ out.args = <<>>
    /\ \/ LastCommand \in DOMAIN UsageText /\ out.fmt = UsageText[LastCommand]
       \/ FolderForm /\ out.fmt = FolderUsageText
    /\ cwd = before.cwd /\ dirs = before.dirs /\ files = before.files
    /\ pc # "crashed"

\* C26, as claimed: a command given too few arguments, or more than its
\* syntax allows, returns its usage message and changes neither the
\* filesystem nor the current directory.
C26_WrongCountUsageOriginal ==
    (TooFewArguments \/ TooManyArguments) => UsageAnswered

\* C26, amended: a command given fewer arguments than its syntax asks for
\* returns its usage message and changes neither the filesystem nor the
\* current directory.
C26_WrongCountUsage ==
    TooFewArguments => UsageAnswered

\* C26 witness: after a note was written, add with a title alone was
\* answered with the usage of add and the note is as it was.
C26_WrongCountUsageWitness ==
    /\ TooFewArguments /\ LastCommand = "add" /\ Len(LastArgs) = 1
    /\ out.fmt = UsageText["add"]
    /\ DOMAIN files # {} /\ files = before.files

----------------------------------------------------------------------------
(* Two sessions writing one note, checked under RaceSpec.                  *)

\* both sessions ran a command that wrote the note and returned
BothWrote == \A s \in Sessions : race.sess[s].pc = "finished" /\ race.sess[s].flushed > 0

\* the session whose write came last, and the other one
LastWriter == CHOOSE s \in Sessions : \A t \in Sessions : race.sess[t].flushed <= race.sess[s].flushed
EarlierWriter == CHOOSE s \in Sessions : s # LastWriter

\* the last writer had the note open for writing before the earlier write
\* came
WritesOverlapped == race.sess[LastWriter].opened < race.sess[EarlierWriter].flushed

\* the note both wrote
RaceFile == race.sess[LastWriter].file

----------------------------------------------------------------------------
(* Relative and absolute forms of a path, checked under TreeSpec.          *)

\* relative paths: into the tree, up, up past the root, to a sibling of the
\* root, the empty path, a dot
RelativePaths ==
    {<<>>, <<".">>, P_w, <<"w", "/", "v">>, <<"v">>, P_up, P_sibling,
     <<".", ".", "/", ".", ".">>, <<".", ".", "/", ".", ".", "/", ".", ".">>,
     <<"v", "/", ".", ".", "/", ".", ".", "/", "w">>}

\* paths with a leading slash
AbsolutePaths ==
    {P_root, P_abs, P_wv, P_txt, <<"/", "/", "w">>, <<"/", ".", ".">>,
     <<"/", "w", "/", ".", ".", "/", ".", ".", "/", "n", "o", "t", "e", "s", "2">>}

\* the path pwd shows for the current directory
DisplayedPath == _pwd(State, <<>>).out.args[1]

\* C28: from a current directory inside the sandbox whose displayed path is
\* P, a relative path r resolves to the same target, or is rejected alike, as
\* the absolute form P/r; and a path with a leading slash resolves alike from
\* every directory of the sandbox.
C28_ResolutionConsistent ==
    Within(cwd, sandbox_root)
    => /\ \A r \in RelativePaths :
              _resolve_path(State, r) = _resolve_path(State, DisplayedPath \o SEP \o r)
       /\ \A a \in AbsolutePaths :
              \A d \in {e \in dirs : Within(e, sandbox_root)} :
                  _resolve_path([State EXCEPT !.cwd = d], a) = _resolve_path(State, a)

\* C28 witness: the session went two folders down with cd; from there "v"
\* and "/w/v/v" name the same target inside the sandbox, and three steps up
\* are rejected in both forms.
C28_ResolutionConsistentWitness ==
    /\ last.cmd = "cd" /\ cwd # before.cwd
    /\ DisplayedPath = P_wv
    /\ _resolve_path(State, <<"v">>) = [ok |-> TRUE, target |-> cwd \o SEP \o <<"v">>]
    /\ _resolve_path(State, P_wv \o SEP \o <<"v">>) = [ok |-> TRUE, target |-> cwd \o SEP \o <<"v">>]
    /\ ~_resolve_path(State, <<".", ".", "/", ".", ".", "/", ".", ".">>).ok
    /\ ~_resolve_path(State, P_wv \o SEP \o <<".", ".", "/", ".", ".", "/", ".", ".">>).ok

----------------------------------------------------------------------------
(* The command line of the window against the shell, checked under         *)
(* GuiSpec.                                                                *)

\* the last event was a line entered in the window
GuiRan == last.cmd = "execute_command"

\* the window left the filesystem and the current directory as
\* Shell.run_command on the line leaves them
SameAsShell ==
    \E sh \in {run_command(before, last.args[1])} :
        cwd = sh.cwd /\ dirs = sh.dirs /\ files = sh.files

\* the first word of the line is add or edit
EditorLine ==
    /\ ~IsBlank(last.args[1])
    /\ str_split(last.args[1], <<>>, <<>>)[1] \in {CommandText["add"], CommandText["edit"]}

\* C29, as claimed: for every line, the window's command execution leaves
\* the filesystem and the current directory as Shell.run_command on that
\* line leaves them.
C29_GuiAsShellOriginal == GuiRan => SameAsShell

\* C29, amended: a line whose first word is add or edit changes neither the
\* filesystem nor the current directory when the window executes it; every
\* other line leaves them as Shell.run_command on that line leaves them.
C29_GuiAsShell ==
    GuiRan
    => IF EditorLine
       THEN cwd = before.cwd /\ dirs = before.dirs /\ files = before.files
       ELSE SameAsShell

\* C29 witness: the window ran done on a note written from its editor, the
\* note changed, and the shell alone leaves the same.
C29_GuiAsShellWitness ==
    /\ GuiRan /\ ~IsBlank(last.args[1]) /\ ~EditorLine
    /\ str_split(last.args[1], <<>>, <<>>)[1] = CommandText["done"]
    /\ files # before.files
    /\ SameAsShell

----------------------------------------------------------------------------
(* The current directory after folder removals, checked under TreeSpec.    *)

\* the last command was ls or add without a path argument
RanInCwd ==
    \/ last.cmd = "ls" /\ last.args = <<>>
    \/ last.cmd = "add" /\ Len(last.args) >= 2

\* C30: after any sequence of commands the current directory is a directory
\* that exists, so ls and add without path arguments are never answered
\* with the text of an error about a missing directory.
C30_CwdExists ==
    /\ cwd \in dirs
    /\ RanInCwd => out.fmt \notin {"list index out of range",
                                   "[Errno 2] No such file or directory: '{}'"}

----------------------------------------------------------------------------
(* The claim about the reach of a note command, checked under TreeSpec.    *)

\* a title that names no directory
PlainTitle(t) == ~Contains(t, SEP)

\* the last command was add, edit, done, check or remove of a plain title
PlainNoteCommand ==
    /\ last.cmd \in {"add", "edit", "done", "check", "remove"}
    /\ last.args # <<>>
    /\ ~(last.cmd = "remove" /\ last.args[1] \in FolderFlags)
    /\ PlainTitle(last.args[1])

\* the file of the title of the last command in the directory the session
\* was in when the command ran
OwnNote == normpath(PathJoin(before.cwd, last.args[1] \o TXT))

\* C31: add, edit, done, check or remove of a plain title T leaves every
\* file but the note T of the current directory as it was, the notes titled
\* T of the root, of the folders above and of the folders below included;
\* and show T returns the note T of the current directory or no note at all.
C31_NoteCommandsLocal ==
    /\ PlainNoteCommand =>
          /\ DOMAIN files \ {OwnNote} = DOMAIN before.files \ {OwnNote}
          /\ \A f \in DOMAIN before.files \ {OwnNote} : files[f] = before.files[f]
    /\ (last.cmd = "show" /\ last.args # <<>> /\ PlainTitle(last.args[1])) =>
          /\ State = before
          /\ \/ /\ OwnNote \in DOMAIN files
                /\ OutIs(out, "=== {} ===\n{}", <<last.args[1], files[OwnNote]>>)
             \/ /\ OwnNote \notin DOMAIN files
                /\ \A text \in {files[f] : f \in DOMAIN files} :
                      ~OutIs(out, "=== {} ===\n{}", <<last.args[1], text>>)

\* done a ran in a folder while the root held a note of the same title: the
\* folder's note is marked and the root's note is as it was
C31_NoteCommandsLocalWitness ==
    /\ last.cmd = "done"
    /\ before.cwd = PathJoin(sandbox_root, <<"w">>)
    /\ PathJoin(sandbox_root, T_a \o TXT) \in DOMAIN files
    /\ OwnNote \in DOMAIN files
    /\ files[OwnNote] # before.files[OwnNote]
    /\ files[PathJoin(sandbox_root, T_a \o TXT)] # files[OwnNote]

----------------------------------------------------------------------------
(* The claim about the commands that only read, checked under LineSpec.    *)

ReadOnlyCommands == {"ls", "pwd", "show", "list", "help", "clear"}

\* the last line named one of the commands that only read
ReadOnlyLine ==
    /\ last.cmd = "run_command"
    /\ ~IsBlank(LastLine)
    /\ LastParts # <<>>
    /\ \E c \in ReadOnlyCommands : LastParts[1] = CommandText[c]

\* C32: ls, pwd, show, list, help and clear leave every file, every
\* directory and the current directory as they were, whatever their
\* arguments and the state; clear returns the same fixed text each time.
C32_ReadOnlyCommands ==
    ReadOnlyLine =>
        /\ cwd = before.cwd
        /\ dirs = before.dirs
        /\ files = before.files
        /\ LastParts[1] = CommandText["clear"] => OutIs(out, "<ESC>c", <<>>)

\* clear ran with an argument while a note existed, and the note is there
C32_ReadOnlyCommandsWitness ==
    /\ ReadOnlyLine
    /\ LastParts[1] = CommandText["clear"]
    /\ Len(LastParts) = 2
    /\ files # NoFiles
    /\ files = before.files
    /\ OutIs(out, "<ESC>c", <<>>)

----------------------------------------------------------------------------
(* The claim about the lines check leaves alone, checked under             *)
(* NewlineSpec.                                                            *)

\* the lines of a file as stored, each with the characters that end it: a
\* line feed, a carriage return and a line feed, or a carriage return
RECURSIVE StoredLines(_, _)
StoredLines(s, line) ==
    IF s = <<>> THEN (IF line = <<>> THEN <<>> ELSE <<line>>)
    ELSE IF s[1] = "\n" THEN <<Append(line, "\n")>> \o StoredLines(Tail(s), <<>>)
    ELSE IF s[1] = "\r" /\ Len(s) >= 2 /\ s[2] = "\n"
         THEN <<line \o <<"\r", "\n">> >> \o StoredLines(From(s, 3), <<>>)
    ELSE IF s[1] = "\r" THEN <<Append(line, "\r")>> \o StoredLines(Tail(s), <<>>)
    ELSE StoredLines(Tail(s), Append(line, s[1]))

\* the last command was check on an existing note with integer line numbers
CheckRan ==
    /\ last.cmd = "check" /\ Len(last.args) >= 2
    /\ \A k \in 2..Len(last.args) : IsInt(last.args[k])
    /\ NoteExisted
    /\ LastFile \in DOMAIN files

\* the line numbers the last check named
NamedLines == {IntOf(last.args[k]) : k \in 2..Len(last.args)}

\* C33: check T n1 ... nk leaves every line whose number it was not given
\* exactly as stored, and the note has as many lines after as before.
C33_CheckLeavesOtherLines ==
    CheckRan =>
        LET old == StoredLines(before.files[LastFile], <<>>)
            new == StoredLines(files[LastFile], <<>>)
        IN  /\ Len(new) = Len(old)
            /\ \A n \in 1..Len(old) : n \notin NamedLines => new[n] = old[n]

----------------------------------------------------------------------------
(* Two sessions marking one note done, checked under RaceSpec.             *)

\* both sessions ran done on the note, which exists, and returned
BothDone ==
    /\ \A s \in Sessions : race.sess[s].cmd = "done" /\ race.sess[s].pc = "finished"
    /\ race.sess[1].file \in DOMAIN files

\* C34: when two sessions have run done T on a note that was not done, in
\* whatever order their reads and writes came, the note holds the done
\* marker exactly once.
C34_DoneMarkerOnce ==
    BothDone => Count(files[race.sess[1].file], DONE_MARKER) = 1

----------------------------------------------------------------------------
(* The end of the interactive loop, checked under LoopSpec.  A turn of the *)
(* loop is the read of a line, run_command on it and the test of the flag  *)
(* that follows.                                                           *)

\* the line of the last turn named the command exit
ExitLine ==
    /\ last.cmd = "run_command"
    /\ ~IsBlank(LastLine)
    /\ LastParts # <<>>
    /\ LastParts[1] = CommandText["exit"]

\* a turn that ran exit: it answered Bye. and the loop is over
ExitTurn ==
    /\ ExitLine'
    /\ OutIs(out', "Bye.", <<>>)
    /\ ~running'
    /\ pc' = "ended"

\* the end of the input: nothing is run and the loop is over
EndOfInputTurn ==
    /\ pc' = "ended"
    /\ UNCHANGED <<cwd, dirs, files, running, session, gui, race, last, out, before>>

\* a turn that ran any other line: the loop waits for the next line
OtherTurn ==
    /\ ~ExitLine'
    /\ last'.cmd = "run_command"
    /\ running'
    /\ pc' = "loop"

\* C35: once exit has answered Bye. or the input has ended the loop is over
\* and no line is read or run any more; a turn on any other line, an unknown
\* or a failing command included, leaves the loop waiting for the next line.
C35_LoopEnds ==
    [][/\ pc # "ended"
       /\ pc = "loop" => (ExitTurn \/ EndOfInputTurn \/ OtherTurn)]_vars

\* exit has been run in a session that had written a note: it answered
\* Bye., the flag is cleared and the loop is over
C35_LoopEndsWitness ==
    /\ ExitLine
    /\ pc = "ended"
    /\ ~running
    /\ OutIs(out, "Bye.", <<>>)
    /\ before.running
    /\ before.files # NoFiles

----------------------------------------------------------------------------
(* Where the editor's note is written, checked under GuiSpec.              *)

\* the editor was left with Enter and the note was written
EditorSaved ==
    /\ last.cmd = "finish_editing"
    /\ out.fmt \in {"Note '{}' created.", "Note '{}' saved."}

\* the file of the editor's note in the directory where add or edit opened
\* the editor
NoteWhereOpened == normpath(PathJoin(gui.opened_in, gui.current_note \o TXT))

\* C36: the note that add T or edit T opened in the editor is written, when
\* the editing is finished, in the directory that was current when the
\* editor was opened, also when cd ran in between; no file of another
\* directory is created or overwritten.
C36_SavedWhereOpened ==
    EditorSaved =>
        /\ NoteWhereOpened \in DOMAIN files
        /\ files[NoteWhereOpened] = last.args[1]
        /\ DOMAIN files \ {NoteWhereOpened} = DOMAIN before.files \ {NoteWhereOpened}
        /\ \A f \in DOMAIN before.files \ {NoteWhereOpened} : files[f] = before.files[f]

----------------------------------------------------------------------------
(* Enter and the Vim toggle in the editor, checked under VimSpec.  The     *)
(* formulas are about a step: the unprimed fields are the editor before    *)
(* the key, the primed ones the editor after it.                           *)

\* the step is a press of Enter in the editor
EnterPressed ==
    /\ last'.cmd = "keyPressEvent"
    /\ last'.args[1].key \in {"Key_Return", "Key_Enter"}

\* the step wrote the note of the editor
NoteSaved == out'.fmt \in {"Note '{}' created.", "Note '{}' saved."}

\* the step toggled the Vim mode, by Ctrl+M or by the button
VimToggled ==
    \/ last'.cmd = "toggle_vim_mode"
    \/ /\ last'.cmd = "keyPressEvent"
       /\ last'.args[1].key = "Key_M" /\ last'.args[1].ctrl

\* C37: with the Vim mode enabled, Enter saves the note or leaves edit mode
\* only when the editor is in Normal mode and in edit mode, and there it
\* does save a note that add or edit opened; in Insert mode Enter saves
\* nothing and leaves edit mode as it is; a toggle of the Vim mode, on or
\* off, leaves the editor in Normal mode.
C37_EnterSavesInNormalMode ==
    [][/\ (EnterPressed /\ gui.vim.enabled /\ (NoteSaved \/ files' # files
                                                \/ gui'.edit_mode # gui.edit_mode))
          => (gui.vim.current_mode = "normal" /\ gui.edit_mode)
       /\ (/\ EnterPressed /\ gui.vim.enabled /\ gui.vim.current_mode = "normal"
           /\ gui.edit_mode /\ gui.edit_mode_type \in {"add", "edit"})
          => (NoteSaved /\ ~gui'.edit_mode
              /\ files'[NoteFile(State, gui.current_note)] = last'.args[2])
       /\ (EnterPressed /\ gui.vim.enabled /\ gui.vim.current_mode = "insert")
          => (files' = files /\ gui'.edit_mode = gui.edit_mode /\ ~NoteSaved
              /\ gui'.vim.current_mode = "insert")
       /\ VimToggled
          => (gui'.vim.current_mode = "normal" /\ gui'.vim.enabled = ~gui.vim.enabled)]_vars

\* Enter was pressed in Normal mode while add had the editor in edit mode:
\* the note is written and the editor has left edit mode
C37_EnterSavesInNormalModeWitness ==
    /\ last.cmd = "keyPressEvent"
    /\ last.args[1].key = "Key_Return"
    /\ gui.vim.enabled /\ gui.vim.current_mode = "normal"
    /\ OutIs(out, "Note '{}' created.", <<T_a>>)
    /\ ~gui.edit_mode
    /\ NoteFile(State, T_a) \in DOMAIN files
    /\ before.files = NoFiles

----------------------------------------------------------------------------
(* The commands of two keys in Normal mode, checked under VimSpec.         *)

\* the operations that dd, yy, cc and gg invoke
TwoKeyOperations == {"_delete_line", "_yank_line", "_change_line", "_move_to_top"}

\* the step is a key press that comes right after the press of another key
OtherKeyBefore ==
    /\ last.cmd = "keyPressEvent"
    /\ last'.cmd = "keyPressEvent"
    /\ last.args[1].text # last'.args[1].text

\* C38: dd, yy, cc and gg fire only on the second of two presses of the
\* same key in immediate succession: a key that comes right after another
\* key deletes, yanks or changes no line and does not jump to the top, as
\* the last key of d,y,d or of g,d,g.
C38_TwoKeyCommands ==
    [][OtherKeyBefore => out'.fmt \notin TwoKeyOperations]_vars

====
